---- MODULE Spec2Model ----
(***************************************************************************)
(* Model of the deployment orchestration core of the EnginEdge control     *)
(* center (platform/control-center/control-center.py): the resource        *)
(* catalog, the group resolver, the deploy/destroy script synthesizer and  *)
(* the readiness monitor.                                                  *)
(*                                                                         *)
(* Strings.  A file path is the sequence of its '/'-separated segments, a  *)
(* Kubernetes object name is the sequence of its '-'-separated parts; any  *)
(* other string is a TLA+ string.  A generated script is the sequence of   *)
(* the lines written to it, a line being [op, arg, aux].                   *)
(***************************************************************************)
EXTENDS Integers, Sequences, FiniteSets, TLC

None == "<None>"

(***************************************************************************)
(* String order.  Python compares strings by code point; CodepointOrder    *)
(* lists every string the model sorts in that order.                       *)
(***************************************************************************)
CodepointOrder ==
  << "7f9c8", "Deployment", "StatefulSet", "a", "agent-tool-worker.yaml",
     "api", "api-gateway", "apps", "b", "config", "control-plane.yaml",
     "core-config.yaml", "data", "data-processing-worker.yaml", "db",
     "enginedge-core", "identity-worker", "interview-worker.yaml", "k8s",
     "kafka", "kafka.yaml", "latex-worker.yaml", "llm-worker.yaml",
     "main-node-observability-rbac.yaml", "main-node.yaml", "minio",
     "minio-secret.yaml", "news-ingestion-config.yaml",
     "news-ingestion-cronjob.yaml", "platform", "postgres-metastore",
     "postgres-secret.yaml", "rbac", "redis", "resume-worker.yaml",
     "scheduling-model-config.yaml", "scheduling-model.yaml", "secrets",
     "srv", "web", "wolfram-kernel.yaml", "worker-config.yaml",
     "zookeeper.yaml" >>

StrRank(s) == CHOOSE i \in 1..Len(CodepointOrder) : CodepointOrder[i] = s

StrLess(a, b) == StrRank(a) < StrRank(b)

\* p < q for two paths: the first differing segment decides, a proper prefix
\* is smaller.  (No segment of the model is a proper prefix of a sibling, so
\* this is the order of the joined strings.)
PathLess(p, q) ==
  \/ /\ Len(p) < Len(q)
     /\ \A i \in 1..Len(p) : p[i] = q[i]
  \/ \E i \in 1..Len(p) :
        /\ i <= Len(q)
        /\ \A j \in 1..(i - 1) : p[j] = q[j]
        /\ p[i] # q[i]
        /\ StrLess(p[i], q[i])

\* sorted(...) without reverse=True
PathGreaterMutant(p, q) == PathLess(p, q)

\* the comparison of sorted(..., reverse=True)
PathGreater(p, q) == PathLess(q, p)

RECURSIVE SortedPathSet(_)
\* sorted(list(set(xs))) for paths
SortedPathSet(S) ==
  IF S = {} THEN <<>>
  ELSE LET m == CHOOSE x \in S : \A y \in S : x = y \/ PathLess(x, y)
       IN  <<m>> \o SortedPathSet(S \ {m})

RECURSIVE SortedStrSet(_)
\* sorted(list(set(xs))) for plain strings
SortedStrSet(S) ==
  IF S = {} THEN <<>>
  ELSE LET m == CHOOSE x \in S : \A y \in S : x = y \/ StrLess(x, y)
       IN  <<m>> \o SortedStrSet(S \ {m})

Range(s) == { s[i] : i \in 1..Len(s) }

RECURSIVE Reverse(_)
Reverse(s) == IF s = <<>> THEN <<>> ELSE Reverse(Tail(s)) \o <<Head(s)>>

RECURSIVE Flatten(_)
Flatten(ss) == IF ss = <<>> THEN <<>> ELSE Head(ss) \o Flatten(Tail(ss))

(***************************************************************************)
(* Constants of the program.                                               *)
(***************************************************************************)
REPO_ROOT == << "srv", "enginedge-core" >>

K8S_DIR == REPO_ROOT \o << "platform", "k8s" >>

K8S_SERVICE_GROUPS ==
  [ g \in { "Stateful Backend", "Messaging", "Core Applications",
            "Scheduling App", "News Ingestion Job" } |->
    CASE g = "Stateful Backend" ->
           [ helm_releases |-> << "postgres-metastore", "minio" >>,
             manifests |-> << << "secrets", "postgres-secret.yaml" >>,
                              << "secrets", "minio-secret.yaml" >> >> ]
      [] g = "Messaging" ->
           [ helm_releases |-> << "redis" >>,
             manifests |-> << << "apps", "zookeeper.yaml" >>,
                              << "apps", "kafka.yaml" >> >> ]
      [] g = "Core Applications" ->
           [ helm_releases |-> << "api-gateway", "identity-worker" >>,
             manifests |-> << << "config", "core-config.yaml" >>,
                              << "apps", "control-plane.yaml" >>,
                              << "config", "worker-config.yaml" >>,
                              << "apps", "llm-worker.yaml" >>,
                              << "apps", "agent-tool-worker.yaml" >>,
                              << "apps", "data-processing-worker.yaml" >>,
                              << "apps", "interview-worker.yaml" >>,
                              << "apps", "latex-worker.yaml" >>,
                              << "apps", "resume-worker.yaml" >>,
                              << "apps", "wolfram-kernel.yaml" >>,
                              << "apps", "main-node.yaml" >>,
                              << "rbac", "main-node-observability-rbac.yaml" >> >> ]
      [] g = "Scheduling App" ->
           [ helm_releases |-> << >>,
             manifests |-> << << "config", "scheduling-model-config.yaml" >>,
                              << "apps", "scheduling-model.yaml" >> >> ]
      [] g = "News Ingestion Job" ->
           [ helm_releases |-> << >>,
             manifests |-> << << "config", "news-ingestion-config.yaml" >>,
                              << "apps", "news-ingestion-cronjob.yaml" >> >> ] ]

\* the keys of K8S_SERVICE_GROUPS in insertion order
GroupOrder ==
  << "Stateful Backend", "Messaging", "Core Applications",
     "Scheduling App", "News Ingestion Job" >>

\* a lookup whose default is the first group of the catalog instead of {}
GroupFieldMutant(group_name, field) ==
  IF group_name \in DOMAIN K8S_SERVICE_GROUPS
  THEN K8S_SERVICE_GROUPS[group_name][field]
  ELSE K8S_SERVICE_GROUPS[GroupOrder[1]][field]

\* K8S_SERVICE_GROUPS.get(group_name, {}).get(field, [])
GroupField(group_name, field) ==
  IF group_name \in DOMAIN K8S_SERVICE_GROUPS
  THEN K8S_SERVICE_GROUPS[group_name][field]
  ELSE << >>

\* os.path.join(K8S_DIR, rel)
K8sPath(rel) == K8S_DIR \o rel

(***************************************************************************)
(* Group resolver.                                                         *)
(***************************************************************************)
GroupManifestPaths(group_name) ==
  [ i \in 1..Len(GroupField(group_name, "manifests")) |->
      K8sPath(GroupField(group_name, "manifests")[i]) ]

\* sorted(manifests), sorted(helm_releases): the set() left out
get_group_resourcesMutant(selected_groups_) ==
  LET manifests ==
        Flatten([ i \in 1..Len(selected_groups_) |->
                    GroupManifestPaths(selected_groups_[i]) ])
      helm_releases ==
        Flatten([ i \in 1..Len(selected_groups_) |->
                    GroupField(selected_groups_[i], "helm_releases") ])
  IN  [ manifests |-> SortSeq(manifests, PathLess),
        helm_releases |-> SortSeq(helm_releases, StrLess) ]

get_group_resources(selected_groups_) ==
  LET manifests ==
        Flatten([ i \in 1..Len(selected_groups_) |->
                    GroupManifestPaths(selected_groups_[i]) ])
      helm_releases ==
        Flatten([ i \in 1..Len(selected_groups_) |->
                    GroupField(selected_groups_[i], "helm_releases") ])
  IN  [ manifests |-> SortedPathSet(Range(manifests)),
        helm_releases |-> SortedStrSet(Range(helm_releases)) ]

(***************************************************************************)
(* Script synthesizer.  A line is [op, arg, aux]: the operation, its       *)
(* target (a manifest path, a release name, a text) and what else the      *)
(* line carries (the chart and values file of an install, the guards of a  *)
(* delete).                                                                *)
(***************************************************************************)
Line(op, arg, aux) == [ op |-> op, arg |-> arg, aux |-> aux ]

Blank == Line("blank", << >>, << >>)

Comment(text) == Line("comment", << text >>, << >>)

\* segment seg ends with the directory name d; on the segments of the model
\* only the directory itself does
EndsWith(seg, d) == seg = d

\* Python's  (d + "/") in m  for a path m: some segment that is followed by a
\* separator ends with d
InPath(d, m) == \E i \in 1..(Len(m) - 1) : EndsWith(m[i], d)

IsSecretOrConfig(m) == InPath("secrets", m) \/ InPath("config", m)

\* the application filter taken as 'everything that is not a secret'
IsAppMutant(m) == ~InPath("secrets", m)

IsApp(m) == InPath("apps", m)

IsAppOrConfig(m) == InPath("apps", m) \/ InPath("config", m)

IsSecret(m) == InPath("secrets", m)

helm_charts ==
  [ r \in { "postgres-metastore", "minio", "kafka", "redis" } |->
    CASE r = "postgres-metastore" -> "bitnami/postgresql"
      [] r = "minio" -> "minio/minio"
      [] r = "kafka" -> "bitnami/kafka"
      [] r = "redis" -> "bitnami/redis" ]

helm_values ==
  [ r \in { "postgres-metastore", "minio", "kafka", "redis" } |->
    CASE r = "postgres-metastore" -> << "charts", "postgres", "values.yaml" >>
      [] r = "minio" -> << "charts", "minio", "values.yaml" >>
      [] r = "kafka" -> << "charts", "kafka", "values.yaml" >>
      [] r = "redis" -> << "charts", "redis", "values.yaml" >> ]

\* d.get(k, default) for a dict kept as a function
MapGet(m, k, default) == IF k \in DOMAIN m THEN m[k] ELSE default

\* the  for release in helm_releases_to_install  loop of both deploy scripts
HelmInstallLines(releases) ==
  LET one(release) ==
        LET chart == MapGet(helm_charts, release, None)
            values_rel == MapGet(helm_values, release, << >>)
        IN  IF chart # None /\ values_rel # << >>
            THEN << Line("helm_install", << release >>,
                         << chart >> \o K8sPath(values_rel)) >>
            ELSE << >>
  IN  Flatten([ i \in 1..Len(releases) |-> one(releases[i]) ])

HelmRepoLines ==
  << Comment("Installing Helm Charts for 3rd party services"),
     Line("helm_repo_add", << "bitnami" >>, << >>),
     Line("helm_repo_add", << "minio" >>, << >>),
     Line("helm_repo_update", << >>, << >>),
     Blank >>

ApplyLines(paths) ==
  [ i \in 1..Len(paths) |-> Line("apply", paths[i], << >>) ]

\* a guard that reports the unreachable cluster and goes on
GuardMutant == Line("guard", << "kubectl cluster-info" >>, << >>)

Guard == Line("guard", << "kubectl cluster-info" >>, << "exit 1" >>)

Echo(text) == Line("echo", << text >>, << >>)

DeployMarker == Echo("Kubernetes deployment finished.")

DestroyMarker == Echo("Kubernetes teardown finished.")

\* the lines written to deploy_k8s_<slug>.sh
DeployScriptSh(groups) ==
  LET res == get_group_resources(groups)
      manifests_to_apply == res.manifests
      helm_releases_to_install == res.helm_releases
      secrets_and_configs == SelectSeq(manifests_to_apply, IsSecretOrConfig)
      apps == SelectSeq(manifests_to_apply, IsApp)
  IN  << Line("shebang", << >>, << >>),
         Line("comment", groups, << >>),
         Comment("This script was generated by the EnginEdge Control Center."),
         Line("set_e", << >>, << >>),
         Blank,
         Guard,
         Blank,
         Echo("Starting Kubernetes deployment..."),
         Blank >>
      \o (IF secrets_and_configs # << >>
          THEN << Comment("Applying Secrets and ConfigMaps") >>
               \o ApplyLines(SortSeq(secrets_and_configs, PathLess))
               \o << Blank >>
          ELSE << >>)
      \o (IF helm_releases_to_install # << >>
          THEN HelmRepoLines
               \o HelmInstallLines(helm_releases_to_install)
               \o << Blank >>
          ELSE << >>)
      \o (IF apps # << >>
          THEN << Comment("Deploying Core Applications") >>
               \o ApplyLines(SortSeq(apps, PathLess))
               \o << Blank >>
          ELSE << >>)
      \o << DeployMarker >>

\* a PowerShell deploy script whose first filter reads  "secrets/" in m  alone
DeployScriptPs1Mutant(groups) ==
  LET res == get_group_resources(groups)
      manifests_to_apply == res.manifests
      helm_releases_to_install == res.helm_releases
  IN  << Line("param", << >>, << >>),
         Line("erroraction", << "Stop" >>, << >>),
         Line("echo", groups, << >>),
         Guard,
         Echo("Starting Kubernetes deployment..."),
         Blank,
         Comment("Applying Secrets and ConfigMaps") >>
      \o ApplyLines(SortSeq(SelectSeq(manifests_to_apply, IsSecret), PathLess))
      \o << Blank >>
      \o (IF helm_releases_to_install # << >>
          THEN HelmRepoLines
               \o HelmInstallLines(helm_releases_to_install)
               \o << Blank >>
          ELSE << >>)
      \o << Comment("Deploying Core Applications") >>
      \o ApplyLines(SortSeq(SelectSeq(manifests_to_apply, IsApp), PathLess))
      \o << Blank >>
      \o << DeployMarker >>

\* the lines written to deploy_k8s_<slug>.ps1
DeployScriptPs1(groups) ==
  LET res == get_group_resources(groups)
      manifests_to_apply == res.manifests
      helm_releases_to_install == res.helm_releases
  IN  << Line("param", << >>, << >>),
         Line("erroraction", << "Stop" >>, << >>),
         Line("echo", groups, << >>),
         Guard,
         Echo("Starting Kubernetes deployment..."),
         Blank,
         Comment("Applying Secrets and ConfigMaps") >>
      \o ApplyLines(SortSeq(SelectSeq(manifests_to_apply, IsSecretOrConfig), PathLess))
      \o << Blank >>
      \o (IF helm_releases_to_install # << >>
          THEN HelmRepoLines
               \o HelmInstallLines(helm_releases_to_install)
               \o << Blank >>
          ELSE << >>)
      \o << Comment("Deploying Core Applications") >>
      \o ApplyLines(SortSeq(SelectSeq(manifests_to_apply, IsApp), PathLess))
      \o << Blank >>
      \o << DeployMarker >>

\* kubectl delete -f <file> --ignore-not-found=true
DeleteLines(paths) ==
  [ i \in 1..Len(paths) |->
      Line("delete", paths[i], << "ignore-not-found" >>) ]

\* the same delete, run only if the manifest file exists
GuardedDeleteLines(paths) ==
  [ i \in 1..Len(paths) |->
      Line("delete", paths[i], << "if-file-exists", "ignore-not-found" >>) ]

\* helm delete <release>, run only if  helm status  finds the release
HelmDeleteLines(releases) ==
  [ i \in 1..Len(releases) |->
      Line("helm_delete", << releases[i] >>, << "if-installed" >>) ]

PvcNotice == Echo("PersistentVolumeClaims preserved (wolfram-state and other PVCs retained).")

DeletePvc == Line("delete_pvc", << "--all", "-n", "default" >>, << "ignore-not-found" >>)

\* the PVC block with the preserve_pvc test dropped
PvcLinesMutant(preserve) ==
  << Comment("Deleting PersistentVolumeClaims"), DeletePvc, Blank >>

\* the  if preserve_pvc / else  block of both destroy scripts
PvcLines(preserve) ==
  IF preserve
  THEN << PvcNotice >>
  ELSE << Comment("Deleting PersistentVolumeClaims"), DeletePvc, Blank >>

\* the lines written to destroy_k8s_<slug>.sh
DestroyScriptSh(groups, preserve) ==
  LET res == get_group_resources(groups)
      manifests_to_delete == res.manifests
      helm_releases_to_delete == res.helm_releases
      apps_and_configs == SelectSeq(manifests_to_delete, IsAppOrConfig)
      secrets == SelectSeq(manifests_to_delete, IsSecret)
  IN  << Line("shebang", << >>, << >>),
         Comment("Destroys selected application components from Kubernetes."),
         Line("set_e", << >>, << >>),
         Blank,
         Guard,
         Blank,
         Line("echo", << "Starting Kubernetes teardown for" >> \o groups, << >>),
         Blank >>
      \o (IF apps_and_configs # << >>
          THEN << Comment("Deleting Applications and ConfigMaps") >>
               \o DeleteLines(SortSeq(apps_and_configs, PathGreater))
               \o << Blank >>
          ELSE << >>)
      \o (IF helm_releases_to_delete # << >>
          THEN << Comment("Deleting Helm Releases") >>
               \o HelmDeleteLines(helm_releases_to_delete)
               \o << Blank >>
          ELSE << >>)
      \o (IF secrets # << >>
          THEN << Comment("Deleting Secrets") >>
               \o GuardedDeleteLines(SortSeq(secrets, PathGreater))
               \o << Blank >>
          ELSE << >>)
      \o PvcLines(preserve)
      \o << DestroyMarker >>

\* the lines written to destroy_k8s_<slug>.ps1
DestroyScriptPs1(groups, preserve) ==
  LET res == get_group_resources(groups)
      manifests_to_delete == res.manifests
      helm_releases_to_delete == res.helm_releases
      secrets == SelectSeq(manifests_to_delete, IsSecret)
  IN  << Line("param", << >>, << >>),
         Line("erroraction", << "Stop" >>, << >>),
         Line("echo", groups, << >>),
         Guard,
         Echo("Starting Kubernetes teardown..."),
         Blank,
         Comment("Deleting Applications and ConfigMaps") >>
      \o DeleteLines(SortSeq(SelectSeq(manifests_to_delete, IsAppOrConfig), PathGreater))
      \o << Blank >>
      \o (IF helm_releases_to_delete # << >>
          THEN << Comment("Deleting Helm Releases") >>
               \o HelmDeleteLines(helm_releases_to_delete)
               \o << Blank >>
          ELSE << >>)
      \o (IF secrets # << >>
          THEN << Comment("Deleting Secrets") >>
               \o GuardedDeleteLines(SortSeq(secrets, PathGreater))
               \o << Blank >>
          ELSE << >>)
      \o PvcLines(preserve)
      \o << DestroyMarker >>

(***************************************************************************)
(* Readiness monitor: what one tick of wait_for_readiness computes.        *)
(*                                                                         *)
(* A query result is [ok, items]: ok is FALSE when kubectl or the JSON     *)
(* parse raised, and items are the objects of the namespace at that time.  *)
(* A controller item is [name, replicas, readyReplicas], a field being     *)
(* << n >> when the JSON holds n and Absent when it omits the key.  A pod  *)
(* is [name, ownerReferences, containerStatuses].  Object names are        *)
(* sequences of '-'-separated parts.                                       *)
(***************************************************************************)
Absent == << >>

\* field.get(key, default)
FieldGet(field, default) == IF field = Absent THEN default ELSE field[1]

\* statuses.append({...}) for one item of a controller query
StatusOf(kind, item) ==
  [ kind |-> kind,
    name |-> item.name,
    ready |-> FieldGet(item.readyReplicas, 0),
    replicas |-> FieldGet(item.replicas, 1) ]

\* what a query can raise: kubectl exits non-zero (check=True), kubectl is not
\* installed, stdout is not JSON
QueryErrors == { "CalledProcessError", "FileNotFoundError", "JSONDecodeError" }

\* a handler that names the exit status of kubectl alone
CaughtByExceptMutant(e) == e = "CalledProcessError"

\* except Exception: all of QueryErrors are subclasses of Exception
CaughtByExcept(e) == e \in QueryErrors

\* the query raised e and the handler of its try-block lets e through
Escapes(out, e) == ~out.ok /\ ~CaughtByExcept(e)

\* one try-block of load_statuses: the records of a query, none if it raised
QueryStatuses(kind, out) ==
  IF out.ok
  THEN [ i \in 1..Len(out.items) |-> StatusOf(kind, out.items[i]) ]
  ELSE << >>

load_statuses(dep, st) ==
  QueryStatuses("Deployment", dep) \o QueryStatuses("StatefulSet", st)

\* d[k] = v
MapPut(m, k, v) == [ x \in DOMAIN m \cup { k } |-> IF x = k THEN v ELSE m[x] ]

EmptyMap == [ x \in { } |-> None ]

TransientReasons == { "ContainerCreating", "PodInitializing" }

RECURSIVE SumRestarts(_)
\* restarts += int(cs.get("restartCount", 0)) over the containers
SumRestarts(css) ==
  IF css = << >> THEN 0
  ELSE Head(css).restartCount + SumRestarts(Tail(css))

RECURSIVE ContainerReasons(_, _, _)
\* the writes of owner_reason_map[<pod name>] while the containers of one pod
\* are walked
ContainerReasons(css, pod_name, reason_map) ==
  IF css = << >> THEN reason_map
  ELSE LET st == Head(css).state
           reason == IF st.reason = None THEN st.key ELSE st.reason
           next == IF st.key = "waiting" /\ reason \notin TransientReasons
                   THEN MapPut(reason_map, pod_name, reason)
                   ELSE IF st.key = "terminated"
                        THEN MapPut(reason_map, pod_name, reason)
                        ELSE reason_map
       IN  ContainerReasons(Tail(css), pod_name, next)

RECURSIVE PodOwner(_, _)
\* the name of the last ReplicaSet or StatefulSet owner reference; << >> is
\* Python's None (and the empty name)
PodOwner(refs, owner) ==
  IF refs = << >> THEN owner
  ELSE PodOwner(Tail(refs),
                IF Head(refs).kind \in { "ReplicaSet", "StatefulSet" }
                THEN Head(refs).name
                ELSE owner)

\* owner.split("-")[0] (an owner without '-' is its own single part)
OwnerPrefix(owner) == << Head(owner) >>

RECURSIVE ProcessPods(_, _)
\* the  for pod in pods_data["items"]  loop; maps is
\* [restarts_map, owner_reason_map]
ProcessPods(pods, maps) ==
  IF pods = << >> THEN maps
  ELSE LET pod == Head(pods)
           restarts == SumRestarts(pod.containerStatuses)
           reasons == ContainerReasons(pod.containerStatuses, pod.name,
                                       maps.owner_reason_map)
           owner == PodOwner(pod.ownerReferences, << >>)
           next ==
             IF owner # << >>
             THEN LET owner_prefix == OwnerPrefix(owner)
                      pod_reason == MapGet(reasons, pod.name, None)
                  IN  [ restarts_map |->
                          MapPut(maps.restarts_map, owner_prefix,
                                 MapGet(maps.restarts_map, owner_prefix, 0)
                                   + restarts),
                        owner_reason_map |->
                          IF pod_reason # None
                             /\ owner_prefix \notin DOMAIN reasons
                          THEN MapPut(reasons, owner_prefix, pod_reason)
                          ELSE reasons ]
             ELSE [ restarts_map |-> maps.restarts_map,
                    owner_reason_map |-> reasons ]
       IN  ProcessPods(Tail(pods), next)

\* the try-block around the pod query: both maps stay empty if it raised
PodMaps(pods) ==
  IF pods.ok
  THEN ProcessPods(pods.items,
                   [ restarts_map |-> EmptyMap, owner_reason_map |-> EmptyMap ])
  ELSE [ restarts_map |-> EmptyMap, owner_reason_map |-> EmptyMap ]

\* is_ready without the  replicas > 0  test
IsReadyMutant(s) == s.ready >= s.replicas

\* is_ready = s["ready"] >= s["replicas"] and s["replicas"] > 0
IsReady(s) == s.ready >= s.replicas /\ s.replicas > 0

\* key=lambda x: (x["kind"], x["name"])
StatusLess(a, b) ==
  \/ StrLess(a.kind, b.kind)
  \/ a.kind = b.kind /\ PathLess(a.name, b.name)

\* the table rows of a tick, in display order
TableRows(sts, maps) ==
  LET sorted == SortSeq(sts, StatusLess)
  IN  [ i \in 1..Len(sorted) |->
          [ kind |-> sorted[i].kind,
            name |-> sorted[i].name,
            ready |-> sorted[i].ready,
            replicas |-> sorted[i].replicas,
            restart_count |-> MapGet(maps.restarts_map, sorted[i].name, 0),
            reason |-> MapGet(maps.owner_reason_map, sorted[i].name, None) ] ]

ReadyCount(sts) == Cardinality({ i \in 1..Len(sts) : IsReady(sts[i]) })

\* if total > 0 and ready_count == total: break
Converged(sts) == Len(sts) > 0 /\ ReadyCount(sts) = Len(sts)

\* the timeout test with > for >=
TimedOutMutant(t, t0, limit) == t - t0 > limit

\* if time.time() - start >= timeout_seconds: break
TimedOut(t, t0, limit) == t - t0 >= limit

(***************************************************************************)
(* State.                                                                  *)
(***************************************************************************)
VARIABLES
  selected_groups,   \* the selection handed to the generators
  preserve_pvc,      \* the preserve_pvc argument of the destroy generator
  deploy_sh,         \* lines of the deploy .sh file, << >> while not written
  deploy_ps1,        \* lines of the deploy .ps1 file
  destroy_sh,        \* lines of the destroy .sh file
  destroy_ps1,       \* lines of the destroy .ps1 file
  pc,                \* wait_for_readiness: "idle", "load", "pods", "sleep", "done"
  timeout_seconds,   \* its argument
  start,             \* start = time.time()
  now,               \* the clock, in seconds
  tick,              \* iterations of the while loop begun
  dep_out,           \* result of the Deployment query of this tick
  st_out,            \* result of the StatefulSet query of this tick
  pods_out,          \* result of the Pod query of this tick
  statuses,          \* statuses = load_statuses()
  restarts_map,      \* restarts per owner prefix
  owner_reason_map,  \* reason per pod name and per owner prefix
  rows,              \* the rows added to the table in this tick
  outcome            \* how the loop was left: "converged", "timed_out",
                     \* "error" (an exception left the loop), None

VARIABLES
  fn_called,         \* the function a call of which is observed, None before
  fn_args,           \* its arguments
  fn_result,         \* what it returned
  action_choice,     \* manage_kubernetes_environment: the action selected
  menu_pc,           \* "select", "ensure", "act", "end", "exit"
  cluster,           \* what the reachability probes and the offer will do
  cluster_online,    \* what _ensure_cluster_online_or_offer_start returned
  effects,           \* the effects of the current action, in order
  notice,            \* the offline notice printed for the current action
  written_now,       \* the script files the current action has written
  run_path,          \* the path the current action gave _run_script, << >> if none
  img_pc,            \* _build_and_load_kind_images: "idle", "loop", "done"
  img_list,          \* the images of the run, each with what will happen to it
  img_i,             \* index of the image the loop is at
  img_log,           \* the docker and kind commands run, in order
  kind_available,    \* _kind_available()
  dockerfiles        \* the directories that hold a Dockerfile

genvars == << selected_groups, preserve_pvc,
              deploy_sh, deploy_ps1, destroy_sh, destroy_ps1 >>

tickvars == << dep_out, st_out, pods_out, statuses,
               restarts_map, owner_reason_map, rows >>

monvars == << pc, timeout_seconds, start, now, tick, tickvars, outcome >>

fnvars == << fn_called, fn_args, fn_result >>

menuvars == << action_choice, menu_pc, cluster, cluster_online, effects, notice,
     written_now, run_path >>

imgvars == << img_pc, img_list, img_i, img_log, kind_available, dockerfiles >>

extvars == << fnvars, menuvars, imgvars >>

vars == << genvars, monvars, extvars >>

NoQuery == [ ok |-> FALSE, items |-> << >> ]

\* no script written
GenIdle ==
  /\ selected_groups = << >>
  /\ preserve_pvc = FALSE
  /\ deploy_sh = << >>
  /\ deploy_ps1 = << >>
  /\ destroy_sh = << >>
  /\ destroy_ps1 = << >>

\* the locals of the loop body before a tick has bound them
TickLocalsUnset ==
  /\ dep_out = NoQuery
  /\ st_out = NoQuery
  /\ pods_out = NoQuery
  /\ statuses = << >>
  /\ restarts_map = EmptyMap
  /\ owner_reason_map = EmptyMap
  /\ rows = << >>

\* wait_for_readiness not called
MonIdle ==
  /\ pc = "idle"
  /\ timeout_seconds = 0
  /\ start = 0
  /\ now = 0
  /\ tick = 0
  /\ TickLocalsUnset
  /\ outcome = None

\* no function call observed
FnIdle ==
  /\ fn_called = None
  /\ fn_args = << >>
  /\ fn_result = << >>

\* manage_kubernetes_environment not entered
MenuIdle ==
  /\ action_choice = None
  /\ menu_pc = "idle"
  /\ cluster = << >>
  /\ cluster_online = None
  /\ effects = << >>
  /\ notice = None
  /\ written_now = { }
  /\ run_path = << >>

\* _build_and_load_kind_images not called
ImgIdle ==
  /\ img_pc = "idle"
  /\ img_list = << >>
  /\ img_i = 0
  /\ img_log = << >>
  /\ kind_available = FALSE
  /\ dockerfiles = { }

ExtIdle == FnIdle /\ MenuIdle /\ ImgIdle

(***************************************************************************)
(* Script generation: the selection and the flag are drawn at the start,   *)
(* the two generators write their files.                                   *)
(***************************************************************************)
\* longest selection that is not a menu choice
MaxSelLen == 2

UnknownGroup == "Ghost"

\* the elements of GroupOrder at the positions of S, in catalog order: what the
\* scope menu returns ("all" is every position)
RECURSIVE MenuChoice(_)
MenuChoice(S) ==
  IF S = {} THEN << >>
  ELSE LET k == CHOOSE i \in S : \A j \in S : i <= j
       IN  << GroupOrder[k] >> \o MenuChoice(S \ {k})

Selections ==
  { MenuChoice(S) : S \in SUBSET (1..Len(GroupOrder)) }
  \cup UNION { [ 1..n -> Range(GroupOrder) \cup { UnknownGroup } ] : n \in 0..MaxSelLen }

InitGen ==
  /\ selected_groups \in Selections
  /\ preserve_pvc \in BOOLEAN
  /\ deploy_sh = << >>
  /\ deploy_ps1 = << >>
  /\ destroy_sh = << >>
  /\ destroy_ps1 = << >>
  /\ MonIdle
  /\ ExtIdle

\* both early returns of the generators: nothing selected, nothing resolved
NothingToGenerate(groups) ==
  \/ groups = << >>
  \/ /\ get_group_resources(groups).manifests = << >>
     /\ get_group_resources(groups).helm_releases = << >>

generate_k8s_deploy_script ==
  /\ IF NothingToGenerate(selected_groups)
     THEN UNCHANGED << deploy_sh, deploy_ps1 >>
     ELSE /\ deploy_sh' = DeployScriptSh(selected_groups)
          /\ deploy_ps1' = DeployScriptPs1(selected_groups)
  /\ UNCHANGED << selected_groups, preserve_pvc, destroy_sh, destroy_ps1 >>
  /\ UNCHANGED monvars
  /\ UNCHANGED extvars

generate_k8s_destroy_script ==
  /\ IF NothingToGenerate(selected_groups)
     THEN UNCHANGED << destroy_sh, destroy_ps1 >>
     ELSE /\ destroy_sh' = DestroyScriptSh(selected_groups, preserve_pvc)
          /\ destroy_ps1' = DestroyScriptPs1(selected_groups, preserve_pvc)
  /\ UNCHANGED << selected_groups, preserve_pvc, deploy_sh, deploy_ps1 >>
  /\ UNCHANGED monvars
  /\ UNCHANGED extvars

NextGen ==
  \/ generate_k8s_deploy_script
  \/ generate_k8s_destroy_script

SpecGen == InitGen /\ [][NextGen]_vars

(***************************************************************************)
(* The readiness monitor as a loop: the controller queries, then the pod   *)
(* query with the table and the two exit tests, then the sleep.  The query *)
(* results are drawn from the sets the specification passes in.            *)
(***************************************************************************)
\* largest replica count of a controller
MaxReplicas == 2

\* largest timeout_seconds
MaxTimeout == 2

\* longest time the queries of one tick take, in seconds
MaxQueryDelay == 1

\* largest restart count of a container
MaxRestarts == 2

ReplicaValues == { Absent } \cup { << n >> : n \in 0..MaxReplicas }

\* the item lists a controller query can return: at most one controller, of
\* one of the names
ControllerLists(names, replicas, ready) ==
  { << >> } \cup
  { << [ name |-> n, replicas |-> r, readyReplicas |-> y ] >> :
      n \in names, r \in replicas, y \in ready }

\* the results of a query over the item lists: returned, or raised
Outs(lists) == [ ok : BOOLEAN, items : lists ]

\* lines 486: statuses = load_statuses()
wait_for_readiness_load(DepOuts, StOuts) ==
  /\ pc = "load"
  /\ \E dep \in DepOuts, st \in StOuts, e \in QueryErrors :
       /\ dep_out' = dep
       /\ st_out' = st
       /\ IF Escapes(dep, e) \/ Escapes(st, e)
          THEN /\ statuses' = statuses
               /\ pc' = "done"
               /\ outcome' = "error"
          ELSE /\ statuses' = load_statuses(dep, st)
               /\ pc' = "pods"
               /\ outcome' = outcome
  /\ tick' = tick + 1
  /\ UNCHANGED << pods_out, restarts_map, owner_reason_map, rows >>
  /\ UNCHANGED << timeout_seconds, start, now >>
  /\ UNCHANGED genvars
  /\ UNCHANGED extvars

\* lines 494-570: the pod query, the table, the two exit tests
wait_for_readiness_tick(PodOuts) ==
  /\ pc = "pods"
  /\ \E pods \in PodOuts, d \in 0..MaxQueryDelay, e \in QueryErrors :
       LET maps == PodMaps(pods)
           t == now + d
       IN  /\ pods_out' = pods
           /\ now' = t
           /\ IF Escapes(pods, e)
              THEN /\ UNCHANGED << restarts_map, owner_reason_map, rows >>
                   /\ pc' = "done"
                   /\ outcome' = "error"
              ELSE /\ restarts_map' = maps.restarts_map
                   /\ owner_reason_map' = maps.owner_reason_map
                   /\ rows' = TableRows(statuses, maps)
                   /\ IF Converged(statuses)
                      THEN pc' = "done" /\ outcome' = "converged"
                      ELSE IF TimedOut(t, start, timeout_seconds)
                           THEN pc' = "done" /\ outcome' = "timed_out"
                           ELSE pc' = "sleep" /\ outcome' = outcome
  /\ UNCHANGED << dep_out, st_out, statuses >>
  /\ UNCHANGED << timeout_seconds, start, tick >>
  /\ UNCHANGED genvars
  /\ UNCHANGED extvars

\* line 571: time.sleep(1); the next iteration rebinds the locals
wait_for_readiness_sleep ==
  /\ pc = "sleep"
  /\ now' = now + 1
  /\ pc' = "load"
  /\ dep_out' = NoQuery
  /\ st_out' = NoQuery
  /\ pods_out' = NoQuery
  /\ statuses' = << >>
  /\ restarts_map' = EmptyMap
  /\ owner_reason_map' = EmptyMap
  /\ rows' = << >>
  /\ UNCHANGED << timeout_seconds, start, tick, outcome >>
  /\ UNCHANGED genvars
  /\ UNCHANGED extvars

\* the state after  start = time.time()
InitMon ==
  /\ GenIdle
  /\ pc = "load"
  /\ timeout_seconds \in 0..MaxTimeout
  /\ start = 0
  /\ now = 0
  /\ tick = 0
  /\ TickLocalsUnset
  /\ outcome = None
  /\ ExtIdle

HashSuffix == "7f9c8"

\* one container status
Container(restarts, key, reason) ==
  [ restartCount |-> restarts, state |-> [ key |-> key, reason |-> reason ] ]

OwnerRef(kind, name) == [ kind |-> kind, name |-> name ]

Pod(name, refs, css) ==
  [ name |-> name, ownerReferences |-> refs, containerStatuses |-> css ]

\* a namespace with one Deployment web and one StatefulSet db, of any replica
\* counts, and at most a crash-looping pod of web
MonDepOuts == Outs(ControllerLists({ << "web" >> }, ReplicaValues, ReplicaValues))

MonStOuts == Outs(ControllerLists({ << "db" >> }, ReplicaValues, ReplicaValues))

MonPodOuts ==
  Outs({ << >>,
         << Pod(<< "a" >>,
                << OwnerRef("ReplicaSet", << "web", HashSuffix >>) >>,
                << Container(1, "waiting", "CrashLoopBackOff") >>) >> })

NextMon ==
  \/ wait_for_readiness_load(MonDepOuts, MonStOuts)
  \/ wait_for_readiness_tick(MonPodOuts)
  \/ wait_for_readiness_sleep

SpecMon == InitMon /\ [][NextMon]_vars

\* the loop runs on: every query returns and the sleep ends
LiveMon == SpecMon /\ WF_vars(NextMon)

(***************************************************************************)
(* The monitor over a namespace with hyphenated controller names and up to *)
(* two pods: Deployment web or web-api, StatefulSet db or db-data, each    *)
(* with one desired replica; pods a and b, each with no owner, with the    *)
(* ReplicaSet of either Deployment or with either StatefulSet as owner,    *)
(* and with one container.                                                 *)
(***************************************************************************)
DeploymentNames == { << "web" >>, << "web", "api" >> }

StatefulSetNames == { << "db" >>, << "db", "data" >> }

\* the ReplicaSet of Deployment d: its name and the generated hash
ReplicaSetOf(d) == d \o << HashSuffix >>

AggDepOuts ==
  [ ok : { TRUE },
    items : ControllerLists(DeploymentNames, { << 1 >> }, { << 0 >>, << 1 >> }) ]

AggStOuts ==
  [ ok : { TRUE },
    items : ControllerLists(StatefulSetNames, { << 1 >> }, { << 0 >>, << 1 >> }) ]

AggOwnerRefs ==
  { << >> }
  \cup { << OwnerRef("ReplicaSet", ReplicaSetOf(d)) >> : d \in DeploymentNames }
  \cup { << OwnerRef("StatefulSet", s) >> : s \in StatefulSetNames }

AggContainers ==
  { Container(n, "running", None) : n \in 0..MaxRestarts }
  \cup { Container(n, "waiting", "CrashLoopBackOff") : n \in 0..MaxRestarts }
  \cup { Container(0, "waiting", "ContainerCreating") }

AggPods(name) ==
  { Pod(name, refs, << c >>) : refs \in AggOwnerRefs, c \in AggContainers }

AggPodOuts ==
  [ ok : { TRUE },
    items : { << >> }
            \cup { << p >> : p \in AggPods(<< "a" >>) }
            \cup { << p >> : p \in AggPods(<< "web" >>) }
            \cup { << p, q >> : p \in AggPods(<< "a" >>), q \in AggPods(<< "b" >>) } ]

InitAgg ==
  /\ GenIdle
  /\ pc = "load"
  /\ timeout_seconds = 1
  /\ start = 0
  /\ now = 0
  /\ tick = 0
  /\ TickLocalsUnset
  /\ outcome = None
  /\ ExtIdle

NextAgg ==
  \/ wait_for_readiness_load(AggDepOuts, AggStOuts)
  \/ wait_for_readiness_tick(AggPodOuts)
  \/ wait_for_readiness_sleep

SpecAgg == InitAgg /\ [][NextAgg]_vars

(***************************************************************************)
(* Properties of the generated scripts.                                    *)
(***************************************************************************)
Written(s) == s # << >>

DeployScripts == { s \in { deploy_sh, deploy_ps1 } : Written(s) }

DestroyScripts == { s \in { destroy_sh, destroy_ps1 } : Written(s) }

\* the catalog directory of a manifest path: its first segment below K8S_DIR
ManifestKind(m) == m[Len(K8S_DIR) + 1]

IsHelmLine(l) ==
  l.op \in { "helm_repo_add", "helm_repo_update", "helm_install", "helm_delete" }

IsClusterCommand(l) ==
  l.op \in { "apply", "delete", "delete_pvc" } \/ IsHelmLine(l)

\* the targets of the lines of s with operation op, in script order
Targets(s, op) ==
  LET IsOp(l) == l.op = op
      ls == SelectSeq(s, IsOp)
  IN  [ i \in 1..Len(ls) |-> ls[i].arg ]

\* C1: in both deploy scripts every apply of a secret or config manifest
\* comes before every helm command, and every helm command comes before
\* every apply of an application manifest.
C1_DeployPhaseOrder ==
  \A s \in DeployScripts :
    \A i, j \in 1..Len(s) :
      /\ ( /\ s[i].op = "apply"
           /\ ManifestKind(s[i].arg) \in { "secrets", "config" }
           /\ IsHelmLine(s[j]) ) => i < j
      /\ ( /\ IsHelmLine(s[i])
           /\ s[j].op = "apply"
           /\ ManifestKind(s[j].arg) = "apps" ) => i < j

HasThreeDeployPhases(s) ==
  /\ \E i \in 1..Len(s) :
        s[i].op = "apply" /\ ManifestKind(s[i].arg) = "secrets"
  /\ \E i \in 1..Len(s) :
        s[i].op = "apply" /\ ManifestKind(s[i].arg) = "config"
  /\ \E i \in 1..Len(s) : s[i].op = "helm_install"
  /\ \E i \in 1..Len(s) :
        s[i].op = "apply" /\ ManifestKind(s[i].arg) = "apps"

C1_Witness ==
  /\ Written(deploy_sh) /\ HasThreeDeployPhases(deploy_sh)
  /\ Written(deploy_ps1) /\ HasThreeDeployPhases(deploy_ps1)

\* the destroy phase of a line: 1 delete of an application or config manifest,
\* 2 uninstall of a release, 3 delete of a secret manifest, 4 the PVC step,
\* 0 for every other line
DestroyPhase(l) ==
  CASE l.op = "delete" /\ ManifestKind(l.arg) \in { "apps", "config" } -> 1
    [] l.op = "helm_delete" -> 2
    [] l.op = "delete" /\ ManifestKind(l.arg) = "secrets" -> 3
    [] l.op = "delete_pvc" \/ l = PvcNotice -> 4
    [] OTHER -> 0

\* C2: in both destroy scripts the commands come in the order: deletes of
\* application/config manifests in reverse lexical order, release uninstalls,
\* deletes of secret manifests in reverse lexical order, then the one PVC
\* step.
C2_DestroyPhaseOrder ==
  \A s \in DestroyScripts :
    /\ \A i, j \in 1..Len(s) :
         (i < j /\ DestroyPhase(s[i]) > 0 /\ DestroyPhase(s[j]) > 0) =>
           /\ DestroyPhase(s[i]) <= DestroyPhase(s[j])
           /\ (DestroyPhase(s[i]) = DestroyPhase(s[j])
               /\ DestroyPhase(s[i]) \in { 1, 3 })
                => PathLess(s[j].arg, s[i].arg)
    /\ Cardinality({ i \in 1..Len(s) : DestroyPhase(s[i]) = 4 }) = 1

HasFourDestroyPhases(s) ==
  /\ Cardinality({ i \in 1..Len(s) : DestroyPhase(s[i]) = 1 }) >= 2
  /\ Cardinality({ i \in 1..Len(s) : DestroyPhase(s[i]) = 2 }) >= 2
  /\ Cardinality({ i \in 1..Len(s) : DestroyPhase(s[i]) = 3 }) >= 2
  /\ Cardinality({ i \in 1..Len(s) : DestroyPhase(s[i]) = 4 }) = 1

C2_Witness ==
  /\ Written(destroy_sh) /\ HasFourDestroyPhases(destroy_sh)
  /\ Written(destroy_ps1) /\ HasFourDestroyPhases(destroy_ps1)

\* C3: the manifest paths of the delete commands of the destroy script are
\* the manifest paths of the apply commands of the deploy script, reversed
\* (same selection; both dialects).
C3_DestroyReversesDeploy ==
  /\ (Written(deploy_sh) /\ Written(destroy_sh)) =>
       Targets(destroy_sh, "delete") = Reverse(Targets(deploy_sh, "apply"))
  /\ (Written(deploy_ps1) /\ Written(destroy_ps1)) =>
       Targets(destroy_ps1, "delete") = Reverse(Targets(deploy_ps1, "apply"))

\* C4: the deploy script holds an install command for every release that
\* get_group_resources returns for the selection.
C4_EveryReleaseInstalled ==
  \A s \in DeployScripts :
    \A r \in Range(get_group_resources(selected_groups).helm_releases) :
      \E i \in 1..Len(s) : s[i].op = "helm_install" /\ s[i].arg = << r >>

IsPvcDeletion(l) == l.op = "delete_pvc" \/ (l.op = "delete" /\ "pvc" \in Range(l.arg))

\* C5: with preserve_pvc set a destroy script holds no PVC deletion, only the
\* notice; with preserve_pvc unset it holds the command deleting all PVCs of
\* namespace default (both dialects).
C5_PreservePvc ==
  \A s \in DestroyScripts :
    IF preserve_pvc
    THEN /\ \A i \in 1..Len(s) : ~IsPvcDeletion(s[i])
         /\ \E i \in 1..Len(s) : s[i].op = "echo"
                                  /\ DestroyPhase(s[i]) = 4
    ELSE \E i \in 1..Len(s) :
           /\ s[i].op = "delete_pvc"
           /\ s[i].arg = << "--all", "-n", "default" >>

C5_Witness ==
  /\ preserve_pvc
  /\ Written(destroy_sh)
  /\ Written(destroy_ps1)
  /\ get_group_resources(selected_groups).manifests # << >>

\* the guard that aborts the script when the cluster is unreachable
IsAbortingGuard(l) == l.op = "guard" /\ "exit 1" \in Range(l.aux)

IsCompletionMarker(l) ==
  /\ l.op = "echo"
  /\ l.arg \in { << "Kubernetes deployment finished." >>,
                 << "Kubernetes teardown finished." >> }

\* C6: in each of the four scripts the aborting reachability guard comes
\* before every kubectl apply/delete and helm command, and the completion
\* marker is the last line.
C6_GuardFirstMarkerLast ==
  \A s \in DeployScripts \cup DestroyScripts :
    /\ \E g \in 1..Len(s) :
         /\ IsAbortingGuard(s[g])
         /\ \A i \in 1..Len(s) : IsClusterCommand(s[i]) => g < i
    /\ IsCompletionMarker(s[Len(s)])
    /\ \A i \in 1..(Len(s) - 1) : ~IsCompletionMarker(s[i])

C6_Witness ==
  /\ Cardinality(DeployScripts \cup DestroyScripts) = 4
  /\ \A s \in DeployScripts : \E i \in 1..Len(s) : s[i].op = "apply"
  /\ \A s \in DeployScripts : \E i \in 1..Len(s) : s[i].op = "helm_install"
  /\ \A s \in DestroyScripts : \E i \in 1..Len(s) : s[i].op = "delete"
  /\ \A s \in DestroyScripts : \E i \in 1..Len(s) : s[i].op = "helm_delete"

(***************************************************************************)
(* Properties of the readiness monitor.                                    *)
(***************************************************************************)
\* a tick has run to its end: the loop was left or is about to sleep
TickDone == pc \in { "sleep", "done" }

\* the objects a query handed to the tick: none if it raised
Seen(out) == IF out.ok THEN out.items ELSE << >>

\* the controllers of the tick's records, as the queries returned them
SeenControllers == Range(Seen(dep_out)) \cup Range(Seen(st_out))

Desired(item) == IF item.replicas = << >> THEN 1 ELSE item.replicas[1]

ReadyReplicas(item) ==
  IF item.readyReplicas = << >> THEN 0 ELSE item.readyReplicas[1]

AllControllersReady ==
  /\ SeenControllers # { }
  /\ \A c \in SeenControllers :
       Desired(c) > 0 /\ ReadyReplicas(c) >= Desired(c)

OneReadyDeployment ==
  /\ Seen(dep_out) = << [ name |-> << "web" >>, replicas |-> << 1 >>,
                          readyReplicas |-> << 1 >> ] >>
  /\ Seen(st_out) = << >>

\* C7: a tick leaves the loop by convergence exactly when its records hold
\* at least one controller and every one has desired > 0 and ready >= desired
\* (desired 1 and ready 0 when absent); one Deployment with 1/1 and nothing
\* else gives Done on the first tick.
C7_ConvergenceExit ==
  TickDone =>
    /\ (pc = "done" /\ outcome = "converged") <=> AllControllersReady
    /\ (tick = 1 /\ OneReadyDeployment) => (pc = "done" /\ outcome = "converged")

C7_Witness ==
  /\ pc = "done"
  /\ outcome = "converged"
  /\ tick = 1
  /\ OneReadyDeployment

\* C8: the monitor always reaches Done; it leaves by timeout only with the
\* elapsed time at or after timeout_seconds, and a tick that ends without
\* leaving the loop has an elapsed time below timeout_seconds.
C8_TimeoutTermination ==
  /\ <>(pc = "done")
  /\ [](outcome = "timed_out" => now - start >= timeout_seconds)
  /\ [](pc = "sleep" => now - start < timeout_seconds)
  /\ [](pc = "done" => outcome \in { "converged", "timed_out" })

C8_Witness ==
  /\ pc = "done"
  /\ outcome = "timed_out"
  /\ tick >= 2
  /\ timeout_seconds > 0
  /\ \E c \in SeenControllers : ReadyReplicas(c) < Desired(c)

RECURSIVE RestartsOfOwner(_, _, _)
\* the container restarts of the pods that have an owner reference of the kind
\* and the name, summed
RestartsOfOwner(pods, kind, name) ==
  IF pods = << >> THEN 0
  ELSE (IF \E i \in 1..Len(Head(pods).ownerReferences) :
              /\ Head(pods).ownerReferences[i].kind = kind
              /\ Head(pods).ownerReferences[i].name = name
        THEN SumRestarts(Head(pods).containerStatuses)
        ELSE 0)
       + RestartsOfOwner(Tail(pods), kind, name)

\* C9: the restart count in the record of Deployment D is the sum of the
\* container restarts of the pods owned by the ReplicaSet named D plus the
\* hash suffix.
C9_DeploymentRestarts ==
  TickDone =>
    \A i \in 1..Len(rows) :
      rows[i].kind = "Deployment" =>
        rows[i].restart_count =
          RestartsOfOwner(Seen(pods_out), "ReplicaSet", ReplicaSetOf(rows[i].name))

\* the pod has a wait reason that is not transient, or a terminate reason
HasErrorReason(pod) ==
  \E i \in 1..Len(pod.containerStatuses) :
    LET st == pod.containerStatuses[i].state
    IN  \/ st.key = "waiting" /\ st.reason \notin TransientReasons
        \/ st.key = "terminated"

\* C10: the restarts and the error reason of a pod owned by the StatefulSet
\* named S are in the record of the StatefulSet named S.
C10_StatefulSetAttribution ==
  TickDone =>
    \A p \in Range(Seen(pods_out)) :
      \A k \in 1..Len(p.ownerReferences) :
        \A i \in 1..Len(rows) :
          ( /\ p.ownerReferences[k].kind = "StatefulSet"
            /\ rows[i].kind = "StatefulSet"
            /\ rows[i].name = p.ownerReferences[k].name ) =>
              /\ rows[i].restart_count >= SumRestarts(p.containerStatuses)
              /\ HasErrorReason(p) => rows[i].reason # None

\* the records of the kind among the statuses of the tick
RecordsOf(kind) == SelectSeq(statuses, LAMBDA s : s.kind = kind)

\* C11: a query that fails never ends the monitor with an error; the failed
\* query gives the tick no record (controllers) or empty maps (pods); the
\* loop is left only when the convergence test or the timeout test holds, and
\* a tick on which neither holds goes on to the sleep.
C11_QueryFailureTolerated ==
  /\ outcome # "error"
  /\ TickDone =>
       /\ ~dep_out.ok => RecordsOf("Deployment") = << >>
       /\ ~st_out.ok => RecordsOf("StatefulSet") = << >>
       /\ ~pods_out.ok =>
            restarts_map = EmptyMap /\ owner_reason_map = EmptyMap
       /\ pc = "done" =>
            \/ outcome = "converged" /\ Converged(statuses)
            \/ /\ outcome = "timed_out"
               /\ ~Converged(statuses)
               /\ now - start >= timeout_seconds
       /\ pc = "sleep" =>
            ~Converged(statuses) /\ now - start < timeout_seconds

\* three failed queries on the first tick, and the loop is in its second tick
\* with a failed query again
C11_Witness ==
  /\ tick = 2
  /\ pc = "sleep"
  /\ ~dep_out.ok /\ dep_out.items # << >>
  /\ ~st_out.ok
  /\ ~pods_out.ok /\ pods_out.items # << >>
  /\ statuses = << >>

(***************************************************************************)
(* The group resolver called on its own: on two lists of group names, on   *)
(* their concatenation, and on the concatenation without the names that    *)
(* are not in the catalog.                                                 *)
(***************************************************************************)
\* the second lists: at most MaxSelLen names, each a group with releases, a
\* group with applications or an unknown name
ShortSelections ==
  UNION { [ 1..n -> { GroupOrder[1], GroupOrder[3], UnknownGroup } ] : n \in 0..MaxSelLen }

\* the names of the list that are keys of the catalog
KnownGroups(groups) ==
  SelectSeq(groups, LAMBDA g : g \in DOMAIN K8S_SERVICE_GROUPS)

InitRes ==
  /\ GenIdle
  /\ MonIdle
  /\ MenuIdle
  /\ ImgIdle
  /\ fn_called = None
  /\ fn_args \in [ g1 : Selections, g2 : ShortSelections ]
  /\ fn_result = << >>

call_get_group_resources ==
  /\ fn_called = None
  /\ fn_called' = "get_group_resources"
  /\ fn_result' =
       [ r1 |-> get_group_resources(fn_args.g1),
         r2 |-> get_group_resources(fn_args.g2),
         r12 |-> get_group_resources(fn_args.g1 \o fn_args.g2),
         known |-> get_group_resources(KnownGroups(fn_args.g1 \o fn_args.g2)) ]
  /\ UNCHANGED fn_args
  /\ UNCHANGED << genvars, monvars, menuvars, imgvars >>

NextRes == call_get_group_resources

SpecRes == InitRes /\ [][NextRes]_vars

(***************************************************************************)
(* Properties of the group resolver.                                       *)
(***************************************************************************)
Resolved == fn_called = "get_group_resources"

\* each path is smaller than the next one
StrictlySortedPaths(s) == \A i \in 1..(Len(s) - 1) : PathLess(s[i], s[i + 1])

StrictlySortedStrs(s) == \A i \in 1..(Len(s) - 1) : StrLess(s[i], s[i + 1])

\* C18: the manifests and the releases of G1 + G2 are the union of those of
\* G1 and of G2, sorted and without a duplicate; the full catalog resolves
\* to the union of its groups resolved one by one.
C18_ResolveIsUnion ==
  Resolved =>
    /\ Range(fn_result.r12.manifests) =
         Range(fn_result.r1.manifests) \cup Range(fn_result.r2.manifests)
    /\ Range(fn_result.r12.helm_releases) =
         Range(fn_result.r1.helm_releases) \cup Range(fn_result.r2.helm_releases)
    /\ StrictlySortedPaths(fn_result.r12.manifests)
    /\ StrictlySortedStrs(fn_result.r12.helm_releases)
    /\ fn_args.g1 = GroupOrder =>
         /\ Range(fn_result.r1.manifests) =
              UNION { Range(get_group_resources(<< g >>).manifests) :
                        g \in Range(GroupOrder) }
         /\ Range(fn_result.r1.helm_releases) =
              UNION { Range(get_group_resources(<< g >>).helm_releases) :
                        g \in Range(GroupOrder) }

\* a list that repeats a group, and a second list with that group and one more
C18_Witness ==
  /\ Resolved
  /\ Len(fn_args.g1) = 2 /\ fn_args.g1[1] = fn_args.g1[2]
  /\ Len(fn_args.g2) = 2 /\ fn_args.g2[1] = fn_args.g1[1]
  /\ fn_args.g2[2] # fn_args.g1[1]
  /\ Range(fn_result.r1.manifests) \cap Range(fn_result.r2.manifests) # { }
  /\ Range(fn_result.r1.manifests) # Range(fn_result.r12.manifests)

\* C19: a name that is not in the catalog adds nothing: the result is the
\* result for the list without the unknown names.
C19_UnknownGroupSkipped ==
  Resolved => fn_result.r12 = fn_result.known

\* an unknown name between known ones, and something resolved
C19_Witness ==
  /\ Resolved
  /\ UnknownGroup \in Range(fn_args.g1)
  /\ UnknownGroup \in Range(fn_args.g2)
  /\ KnownGroups(fn_args.g1) # << >>
  /\ fn_result.r12.manifests # << >>
  /\ fn_result.r12.helm_releases # << >>

(***************************************************************************)
(* The two dialects of a script.                                           *)
(***************************************************************************)
\* the lines of a script that act on the cluster or stop the script: the
\* guard and every kubectl and helm command, with targets and guards
Commands(s) == SelectSeq(s, LAMBDA l : l.op = "guard" \/ IsClusterCommand(l))

\* C20: the .sh and the .ps1 script of one generator call hold the same
\* commands in the same order, with the same targets and the same guards.
C20_DialectsAgree ==
  /\ (Written(deploy_sh) \/ Written(deploy_ps1)) =>
       Commands(deploy_sh) = Commands(deploy_ps1)
  /\ (Written(destroy_sh) \/ Written(destroy_ps1)) =>
       Commands(destroy_sh) = Commands(destroy_ps1)

\* both generators have run on a selection with secrets, configs, releases
\* and applications, and the PVCs are deleted
C20_Witness ==
  /\ Written(deploy_sh) /\ Written(destroy_ps1)
  /\ ~preserve_pvc
  /\ \E i, j, k \in 1..Len(destroy_ps1) :
       /\ destroy_ps1[i].op = "delete" /\ IsSecret(destroy_ps1[i].arg)
       /\ destroy_ps1[j].op = "delete" /\ IsApp(destroy_ps1[j].arg)
       /\ destroy_ps1[k].op = "helm_delete"
  /\ \E i, j \in 1..Len(deploy_ps1) :
       /\ deploy_ps1[i].op = "apply" /\ InPath("config", deploy_ps1[i].arg)
       /\ deploy_ps1[j].op = "helm_install"

(***************************************************************************)
(* Image references.  An image reference, and every string cut out of one, *)
(* is the sequence of its characters, so that split, startswith, endswith, *)
(* replace and the order of sorted() are computed on the text itself.      *)
(***************************************************************************)
\* the characters of the references of the model, by code point
CharOrder ==
  << "-", ".", "/", "0", "1", "2", "3", "4", "5", "6", "7", "8", "9", ":",
     "@", "_", "a", "b", "c", "d", "e", "f", "g", "h", "i", "j", "k", "l",
     "m", "n", "o", "p", "q", "r", "s", "t", "u", "v", "w", "x", "y", "z" >>

CharRank(c) == CHOOSE i \in 1..Len(CharOrder) : CharOrder[i] = c

\* a < b for two strings, as Python compares them
TextLess(a, b) ==
  \/ /\ Len(a) < Len(b)
     /\ \A i \in 1..Len(a) : a[i] = b[i]
  \/ \E i \in 1..Len(a) :
        /\ i <= Len(b)
        /\ \A j \in 1..(i - 1) : a[j] = b[j]
        /\ CharRank(a[i]) < CharRank(b[i])

RECURSIVE SortedTextSet(_)
\* sorted(list(S)) for a set of strings
SortedTextSet(S) ==
  IF S = {} THEN <<>>
  ELSE LET m == CHOOSE x \in S : \A y \in S : x = y \/ TextLess(x, y)
       IN  <<m>> \o SortedTextSet(S \ {m})

\* ch in s
HasChar(s, ch) == \E i \in 1..Len(s) : s[i] = ch

\* s.split(ch)[0]
BeforeFirst(s, ch) ==
  IF HasChar(s, ch)
  THEN SubSeq(s, 1, (CHOOSE i \in 1..Len(s) :
                       s[i] = ch /\ \A j \in 1..(i - 1) : s[j] # ch) - 1)
  ELSE s

\* s.startswith(prefix)
StartsWith(s, prefix) ==
  Len(prefix) <= Len(s) /\ SubSeq(s, 1, Len(prefix)) = prefix

\* s.endswith(suffix)
TextEndsWith(s, suffix) ==
  /\ Len(suffix) <= Len(s)
  /\ SubSeq(s, Len(s) - Len(suffix) + 1, Len(s)) = suffix

\* s.replace(a, b) for single characters
ReplaceChar(s, a, b) == [ i \in 1..Len(s) |-> IF s[i] = a THEN b ELSE s[i] ]

ColonLatest == << ":", "l", "a", "t", "e", "s", "t" >>

\* references as the manifests write them
ImgApiLatest == << "a", "p", "i", ":", "l", "a", "t", "e", "s", "t" >>

ImgApiVersioned == << "a", "p", "i", ":", "1", ".", "0" >>

ImgApiUntagged == << "a", "p", "i" >>

ImgApiLatestPinned == << "a", "p", "i", ":", "l", "a", "t", "e", "s", "t", "@", "s", "h", "a", "2", "5", "6", ":", "a", "b" >>

ImgApiPinned == << "a", "p", "i", "@", "s", "h", "a", "2", "5", "6", ":", "a", "b" >>

ImgCoreLatest == << "c", "o", "r", "e", ":", "l", "a", "t", "e", "s", "t" >>

ImgRegistryWebLatest == << "r", "e", "g", ":", "5", "0", "0", "0", "/", "w", "e", "b", ":", "l", "a", "t", "e", "s", "t" >>

ImgWebLatest == << "w", "e", "b", ":", "l", "a", "t", "e", "s", "t" >>

(***************************************************************************)
(* Image extraction.  A manifest file is [exists, docs]: docs are the YAML *)
(* documents the loader yields before it ends or raises (an exception      *)
(* leaves the images read so far in place and goes on to the next file).   *)
(* A document is [isdict, kind, template, jobTemplate], the two templates  *)
(* being the pod specs at spec.template.spec and at                        *)
(* spec.jobTemplate.spec.template.spec: [containers, initContainers],      *)
(* lists of image strings, << >> for a container without an image.         *)
(***************************************************************************)
WorkloadKinds == { "Deployment", "StatefulSet", "DaemonSet", "Job", "CronJob" }

\* the images of a container list: image.split("@")[0] for each image set
ContainerImages(containers) ==
  LET withImage == SelectSeq(containers, LAMBDA image : image # << >>)
  IN  [ i \in 1..Len(withImage) |-> BeforeFirst(withImage[i], "@") ]

\* lines 264-281: what one document appends to images
DocImages(doc) ==
  IF ~doc.isdict THEN << >>
  ELSE IF doc.kind \in WorkloadKinds
       THEN LET tpl == IF doc.kind = "CronJob" THEN doc.jobTemplate
                       ELSE doc.template
            IN  ContainerImages(tpl.containers)
                \o ContainerImages(tpl.initContainers)
       ELSE << >>

\* the documents yaml.safe_load_all yields before it raises: all of them if
\* no document raises
LoadedDocs(docs) ==
  IF \E i \in 1..Len(docs) : docs[i].raises
  THEN SubSeq(docs, 1, (CHOOSE i \in 1..Len(docs) :
                          docs[i].raises /\ \A j \in 1..(i - 1) : ~docs[j].raises) - 1)
  ELSE docs

\* lines 258-283: what one manifest path appends to images; the except of
\* lines 282-283 ends the file at the document that raises
FileImages(file) ==
  IF ~file.exists THEN << >>
  ELSE LET docs == LoadedDocs(file.docs)
       IN  Flatten([ i \in 1..Len(docs) |-> DocImages(docs[i]) ])

\* the filter with the endswith test left out
IsBuildCandidateMutant(img) == HasChar(img, ":")

\* line 284:  ":" in img and img.endswith(":latest")
IsBuildCandidate(img) == HasChar(img, ":") /\ TextEndsWith(img, ColonLatest)

extract_images_from_manifests(files) ==
  LET images == Flatten([ i \in 1..Len(files) |-> FileImages(files[i]) ])
  IN  SortedTextSet({ img \in Range(images) : IsBuildCandidate(img) })

\* most containers of a pod spec in the documents drawn
MaxContainers == 1

\* the image fields drawn: the references above and the container without one
ImageFields ==
  { << >>, ImgApiLatest, ImgApiVersioned, ImgApiUntagged, ImgApiLatestPinned,
    ImgApiPinned, ImgCoreLatest, ImgRegistryWebLatest }

ContainerLists == UNION { [ 1..n -> ImageFields ] : n \in 0..MaxContainers }

EmptyPodSpec == [ containers |-> << >>, initContainers |-> << >> ]

\* a document of the kind with its pod spec where that kind keeps it
Doc(kind, containers, initContainers) ==
  LET podSpec == [ containers |-> containers, initContainers |-> initContainers ]
  IN  [ isdict |-> TRUE, raises |-> FALSE,
        kind |-> kind,
        template |-> IF kind = "CronJob" THEN EmptyPodSpec ELSE podSpec,
        jobTemplate |-> IF kind = "CronJob" THEN podSpec ELSE EmptyPodSpec ]

\* a document that is not a mapping (an empty document)
NonDictDoc ==
  [ isdict |-> FALSE, raises |-> FALSE, kind |-> None,
    template |-> EmptyPodSpec, jobTemplate |-> EmptyPodSpec ]

\* the place of a file where open(), the YAML parser or a lookup raises
RaisingDoc ==
  [ isdict |-> FALSE, raises |-> TRUE, kind |-> None,
    template |-> EmptyPodSpec, jobTemplate |-> EmptyPodSpec ]

\* files that raise: at once (unreadable, or no YAML at all), or after a
\* first document that is well formed
RaisingFiles ==
  { [ exists |-> TRUE, docs |-> << RaisingDoc >> ],
    [ exists |-> TRUE, docs |-> << Doc("Deployment", << ImgApiLatest >>, << >>), RaisingDoc >> ],
    [ exists |-> TRUE, docs |-> << Doc("Deployment", << ImgApiVersioned >>, << >>), RaisingDoc >> ] }

Docs ==
  { NonDictDoc } \cup
  { Doc(k, cs, ini) : k \in { "Deployment", "CronJob", "Service" },
                      cs \in ContainerLists,
                      ini \in { << >>, << ImgApiLatestPinned >> } }

\* the documents with at most one container in a list
SmallDocs ==
  { d \in Docs : Len(d.template.containers) <= 1 /\ Len(d.jobTemplate.containers) <= 1 }

\* two manifest paths, the second of which may not exist, or one of which
\* raises while it is read
ManifestLists ==
  { << [ exists |-> TRUE, docs |-> << d1 >> ],
       [ exists |-> e, docs |-> << d2 >> ] >> :
      d1 \in Docs, d2 \in SmallDocs, e \in BOOLEAN }
  \cup { << f, [ exists |-> TRUE, docs |-> << d >> ] >> : f \in RaisingFiles, d \in SmallDocs }
  \cup { << [ exists |-> TRUE, docs |-> << d >> ], f >> : f \in RaisingFiles, d \in SmallDocs }

InitExtract ==
  /\ GenIdle
  /\ MonIdle
  /\ MenuIdle
  /\ ImgIdle
  /\ fn_called = None
  /\ fn_args \in ManifestLists
  /\ fn_result = << >>

call_extract_images_from_manifests ==
  /\ fn_called = None
  /\ fn_called' = "_extract_images_from_manifests"
  /\ fn_result' = extract_images_from_manifests(fn_args)
  /\ UNCHANGED fn_args
  /\ UNCHANGED << genvars, monvars, menuvars, imgvars >>

NextExtract == call_extract_images_from_manifests

SpecExtract == InitExtract /\ [][NextExtract]_vars

(***************************************************************************)
(* Properties of the image extraction.                                     *)
(***************************************************************************)
Extracted == fn_called = "_extract_images_from_manifests"

\* the text after the last ':' of a reference that has one
TagOf(ref) ==
  LET k == CHOOSE i \in 1..Len(ref) :
             ref[i] = ":" /\ \A j \in (i + 1)..Len(ref) : ref[j] # ":"
  IN  SubSeq(ref, k + 1, Len(ref))

\* the image strings written in the documents of the files that exist
WrittenRefs(files) ==
  LET DocRefs(doc) ==
        Range(doc.template.containers)
        \cup Range(doc.template.initContainers)
        \cup Range(doc.jobTemplate.containers)
        \cup Range(doc.jobTemplate.initContainers)
      FileRefs(file) ==
        UNION { DocRefs(file.docs[j]) : j \in 1..Len(file.docs) }
  IN  UNION { FileRefs(files[i]) :
                i \in { n \in 1..Len(files) : files[n].exists } }

\* C15: no reference of the result holds '@', each has a tag and the tag is
\* 'latest', and the result is strictly increasing (sorted, no duplicate).
C15_OnlyLatestNoDigest ==
  Extracted =>
    /\ \A i \in 1..Len(fn_result) :
         /\ ~HasChar(fn_result[i], "@")
         /\ HasChar(fn_result[i], ":")
         /\ TagOf(fn_result[i]) = << "l", "a", "t", "e", "s", "t" >>
    /\ \A i \in 1..(Len(fn_result) - 1) : TextLess(fn_result[i], fn_result[i + 1])

\* two references returned from manifests that also hold a versioned and a
\* digest-pinned reference
C15_Witness ==
  /\ Extracted
  /\ Len(fn_result) = 2
  /\ ImgApiVersioned \in WrittenRefs(fn_args)
  /\ \E r \in WrittenRefs(fn_args) : HasChar(r, "@")

\* C16: a digest-pinned reference gives the result no entry: every entry
\* of the result is a reference that some manifest writes without '@'.
C16_PinnedNeverCandidate ==
  Extracted =>
    \A i \in 1..Len(fn_result) :
      \E r \in WrittenRefs(fn_args) : ~HasChar(r, "@") /\ r = fn_result[i]

(***************************************************************************)
(* Build-context resolution.  A directory is [root, rel]: root names       *)
(* REPO_ROOT or one of the two sibling checkouts, rel is the text joined   *)
(* to it.  dockerfiles is the set of directories with a Dockerfile in      *)
(* them (such a directory exists, so the isdir test adds nothing).         *)
(***************************************************************************)
TxtCore == << "c", "o", "r", "e" >>

TxtHexagon == << "h", "e", "x", "a", "g", "o", "n" >>

TxtSchedulingModelApi == << "s", "c", "h", "e", "d", "u", "l", "i", "n", "g", "-", "m", "o", "d", "e", "l", "-", "a", "p", "i" >>

TxtSchedulingModel == << "s", "c", "h", "e", "d", "u", "l", "i", "n", "g", "_", "m", "o", "d", "e", "l" >>

TxtNewsIngestionJob == << "n", "e", "w", "s", "-", "i", "n", "g", "e", "s", "t", "i", "o", "n", "-", "j", "o", "b" >>

TxtScriptsJobs == << "s", "c", "r", "i", "p", "t", "s", "/", "j", "o", "b", "s" >>

TxtWolframKernel == << "w", "o", "l", "f", "r", "a", "m", "-", "k", "e", "r", "n", "e", "l" >>

TxtLocalKernel == << "l", "o", "c", "a", "l", "-", "k", "e", "r", "n", "e", "l" >>

TxtApi == << "a", "p", "i" >>

TxtWeb == << "w", "e", "b" >>

TxtCoreWorker == << "c", "o", "r", "e", "-", "w", "o", "r", "k", "e", "r" >>

TxtCoreWorkerUnderscore == << "c", "o", "r", "e", "_", "w", "o", "r", "k", "e", "r" >>

ImgHexagonLatest == << "h", "e", "x", "a", "g", "o", "n", ":", "l", "a", "t", "e", "s", "t" >>

ImgCoreWorkerLatest == << "c", "o", "r", "e", "-", "w", "o", "r", "k", "e", "r", ":", "l", "a", "t", "e", "s", "t" >>

ImgWolframKernelLatest == << "w", "o", "l", "f", "r", "a", "m", "-", "k", "e", "r", "n", "e", "l", ":", "l", "a", "t", "e", "s", "t" >>

ImgLocalKernelLatest == << "l", "o", "c", "a", "l", "-", "k", "e", "r", "n", "e", "l", ":", "l", "a", "t", "e", "s", "t" >>

ImgNewsIngestionJobLatest == << "n", "e", "w", "s", "-", "i", "n", "g", "e", "s", "t", "i", "o", "n", "-", "j", "o", "b", ":", "l", "a", "t", "e", "s", "t" >>

\* the roots in search order: REPO_ROOT, then the sibling checkouts
SearchRoots == << "REPO_ROOT", "enginedge-workers", "EnginEdge-monorepo" >>

Dir(root, rel) == [ root |-> root, rel |-> rel ]

\* the context of no image: None
NoContext == Dir(None, << >>)

\* os.path.join(REPO_ROOT, "hexagon")
HexagonDir == Dir("REPO_ROOT", TxtHexagon)

\* special.get(base), << >> when base is not a key
SpecialDir(base) ==
  CASE base = TxtCore -> TxtHexagon
    [] base = TxtHexagon -> TxtHexagon
    [] base = TxtSchedulingModelApi -> TxtSchedulingModel
    [] base = TxtNewsIngestionJob -> TxtScriptsJobs
    [] base = TxtWolframKernel -> TxtLocalKernel
    [] OTHER -> << >>

candidate_build_dirs_for_image(image_name) ==
  LET base == BeforeFirst(image_name, ":")
      plain == << base, ReplaceChar(base, "-", "_") >>
      candidates == IF SpecialDir(base) # << >>
                    THEN << SpecialDir(base) >> \o plain
                    ELSE plain
  IN  Flatten([ r \in 1..Len(SearchRoots) |->
                  [ c \in 1..Len(candidates) |->
                      Dir(SearchRoots[r], candidates[c]) ] ])

\* the loop of lines 338-343: the first candidate with a Dockerfile
FirstWithDockerfile(cands, files) ==
  IF \E i \in 1..Len(cands) : cands[i] \in files
  THEN cands[CHOOSE i \in 1..Len(cands) :
               cands[i] \in files /\ \A j \in 1..(i - 1) : cands[j] \notin files]
  ELSE NoContext

\* the search without the special case of lines 331-335
find_build_context_for_imageMutant(image_name, files) ==
  FirstWithDockerfile(candidate_build_dirs_for_image(image_name), files)

find_build_context_for_image(image_name, files) ==
  IF (StartsWith(image_name, TxtHexagon) \/ StartsWith(image_name, TxtCore))
       /\ HexagonDir \in files
  THEN HexagonDir
  ELSE FirstWithDockerfile(candidate_build_dirs_for_image(image_name), files)

\* the directories a Dockerfile may be in
DockerfileDirs ==
  { HexagonDir,
    Dir("REPO_ROOT", TxtCore),
    Dir("REPO_ROOT", TxtCoreWorker),
    Dir("REPO_ROOT", TxtWolframKernel),
    Dir("enginedge-workers", TxtCoreWorkerUnderscore),
    Dir("enginedge-workers", TxtApi),
    Dir("EnginEdge-monorepo", TxtHexagon),
    Dir("EnginEdge-monorepo", TxtLocalKernel),
    Dir("EnginEdge-monorepo", TxtScriptsJobs) }

ContextImages ==
  { ImgCoreLatest, ImgHexagonLatest, ImgCoreWorkerLatest, ImgApiLatest,
    ImgWolframKernelLatest, ImgNewsIngestionJobLatest, ImgWebLatest }

InitContext ==
  /\ GenIdle
  /\ MonIdle
  /\ MenuIdle
  /\ ImgIdle
  /\ fn_called = None
  /\ fn_args \in [ image : ContextImages, files : SUBSET DockerfileDirs ]
  /\ fn_result = << >>

call_find_build_context_for_image ==
  /\ fn_called = None
  /\ fn_called' = "_find_build_context_for_image"
  /\ fn_result' = find_build_context_for_image(fn_args.image, fn_args.files)
  /\ UNCHANGED fn_args
  /\ UNCHANGED << genvars, monvars, menuvars, imgvars >>

NextContext == call_find_build_context_for_image

SpecContext == InitContext /\ [][NextContext]_vars

(***************************************************************************)
(* Properties of the build-context resolution.                             *)
(***************************************************************************)
ContextFound == fn_called = "_find_build_context_for_image"

\* the image name begins with 'core' or with 'hexagon'
HasOrchestratorPrefix(image) ==
  \/ /\ Len(image) >= 4
     /\ SubSeq(image, 1, 4) = << "c", "o", "r", "e" >>
  \/ /\ Len(image) >= 7
     /\ SubSeq(image, 1, 7) = << "h", "e", "x", "a", "g", "o", "n" >>

\* C17: an image whose name begins with an orchestrator prefix resolves to
\* REPO_ROOT/hexagon whenever that directory holds a Dockerfile, whatever
\* other directories hold one.
C17_OrchestratorContext ==
  (ContextFound /\ HasOrchestratorPrefix(fn_args.image)
     /\ Dir("REPO_ROOT", << "h", "e", "x", "a", "g", "o", "n" >>) \in fn_args.files) =>
    fn_result = Dir("REPO_ROOT", << "h", "e", "x", "a", "g", "o", "n" >>)

\* core-worker:latest resolved to hexagon although its own directories hold
\* a Dockerfile too
C17_Witness ==
  /\ ContextFound
  /\ fn_args.image = ImgCoreWorkerLatest
  /\ Dir("REPO_ROOT", TxtCoreWorker) \in fn_args.files
  /\ Dir("enginedge-workers", TxtCoreWorkerUnderscore) \in fn_args.files
  /\ fn_result = HexagonDir

(***************************************************************************)
(* The image pipeline, _build_and_load_kind_images.  img_list holds the    *)
(* images the extraction returned (sorted, distinct, each ending in        *)
(* ':latest'), each with how docker and kind will answer for it:           *)
(* [image, exists, build_ok, load_ok].  img_log holds the commands run,    *)
(* [image, cmd, ok], and a "no_context" entry for an image skipped.        *)
(***************************************************************************)
Cmd(image, cmd, ok) == [ image |-> image, cmd |-> cmd, ok |-> ok ]

\* os.path.basename(ctx)
Basename(ctx) ==
  IF HasChar(ctx.rel, "/")
  THEN LET k == CHOOSE i \in 1..Len(ctx.rel) :
                  ctx.rel[i] = "/" /\ \A j \in (i + 1)..Len(ctx.rel) : ctx.rel[j] # "/"
       IN  SubSeq(ctx.rel, k + 1, Len(ctx.rel))
  ELSE ctx.rel

\* the load run whatever the build did
BuildThenLoadMutant(e, kind) ==
  << Cmd(e.image, "build", e.build_ok) >>
  \o (IF kind
      THEN << Cmd(e.image, "load", e.load_ok) >>
      ELSE << >>)

\* lines 423-438: docker build, then kind load if the build went through
BuildThenLoad(e, kind) ==
  << Cmd(e.image, "build", e.build_ok) >>
  \o (IF e.build_ok /\ kind
      THEN << Cmd(e.image, "load", e.load_ok) >>
      ELSE << >>)

\* lines 400-423 for a context named local-kernel: docker image inspect, and
\* kind load in the same try-block, whose handler lets both failures fall
\* through to the build
KernelCommands(e, kind) ==
  IF e.exists
  THEN << Cmd(e.image, "inspect", TRUE) >>
       \o (IF kind
           THEN << Cmd(e.image, "load", e.load_ok) >>
                \o (IF e.load_ok THEN << >> ELSE BuildThenLoad(e, kind))
           ELSE << >>)
  ELSE << Cmd(e.image, "inspect", FALSE) >> \o BuildThenLoad(e, kind)

\* lines 389-438: one iteration of the loop
ImageCommands(e, kind, files) ==
  LET ctx == find_build_context_for_image(e.image, files)
  IN  IF ctx = NoContext
      THEN << Cmd(e.image, "no_context", TRUE) >>
      ELSE IF (StartsWith(e.image, TxtHexagon) \/ StartsWith(e.image, TxtCore))
                /\ Basename(ctx) = TxtHexagon
           THEN BuildThenLoad(e, kind)
           ELSE IF Basename(ctx) = TxtLocalKernel
                THEN KernelCommands(e, kind)
                ELSE BuildThenLoad(e, kind)

\* a failed build that leaves the loop
AfterImageMutant(i, cmds, n) ==
  IF \E k \in 1..Len(cmds) : cmds[k].cmd = "build" /\ ~cmds[k].ok
  THEN n + 1
  ELSE i + 1

\* continue (lines 393, 408, 429) or the end of the body: the next image
AfterImage(i, cmds, n) == i + 1

\* most images of a run
MaxImages == 3

PipelineImages ==
  { ImgApiLatest, ImgCoreLatest, ImgLocalKernelLatest, ImgWebLatest,
    ImgWolframKernelLatest }

\* the sorted lists of at most MaxImages distinct images
ImageLists ==
  { SortedTextSet(S) : S \in { T \in SUBSET PipelineImages : Cardinality(T) <= MaxImages } }

\* three checkouts: every image has a Dockerfile, some have one, none has
DockerfileSets ==
  { { HexagonDir, Dir("REPO_ROOT", TxtApi), Dir("REPO_ROOT", TxtWeb),
      Dir("EnginEdge-monorepo", TxtLocalKernel) },
    { Dir("REPO_ROOT", TxtApi), Dir("enginedge-workers", TxtWeb),
      Dir("REPO_ROOT", TxtLocalKernel) },
    { } }

\* the lists with every answer of docker and kind for each image
FatedLists(lists) ==
  UNION { { [ i \in 1..Len(l) |->
                [ image |-> l[i], exists |-> f[i][1],
                  build_ok |-> f[i][2], load_ok |-> f[i][3] ] ] :
              f \in [ 1..Len(l) -> BOOLEAN \X BOOLEAN \X BOOLEAN ] } :
          l \in lists }

InitImg ==
  /\ GenIdle
  /\ MonIdle
  /\ MenuIdle
  /\ FnIdle
  /\ img_pc = "start"
  /\ img_list \in FatedLists(ImageLists)
  /\ img_i = 0
  /\ img_log = << >>
  /\ kind_available \in BOOLEAN
  /\ dockerfiles \in DockerfileSets

\* lines 370-385: docker missing or nothing to build ends the call
build_and_load_start ==
  /\ img_pc = "start"
  /\ \E docker \in BOOLEAN :
       IF ~docker
       THEN /\ img_pc' = "done"
            /\ img_log' = << Cmd(<< >>, "docker_missing", TRUE) >>
            /\ img_i' = img_i
       ELSE /\ img_pc' = IF img_list = << >> THEN "done" ELSE "loop"
            /\ img_log' = img_log
            /\ img_i' = 1
  /\ UNCHANGED << img_list, kind_available, dockerfiles >>
  /\ UNCHANGED << genvars, monvars, fnvars, menuvars >>

\* lines 387-438: the body of the loop for one image
build_and_load_image ==
  /\ img_pc = "loop"
  /\ LET cmds == ImageCommands(img_list[img_i], kind_available, dockerfiles)
         next == AfterImage(img_i, cmds, Len(img_list))
     IN  /\ img_log' = img_log \o cmds
         /\ img_i' = next
         /\ img_pc' = IF next > Len(img_list) THEN "done" ELSE "loop"
  /\ UNCHANGED << img_list, kind_available, dockerfiles >>
  /\ UNCHANGED << genvars, monvars, fnvars, menuvars >>

NextImg ==
  \/ build_and_load_start
  \/ build_and_load_image

SpecImg == InitImg /\ [][NextImg]_vars

(***************************************************************************)
(* Properties of the image pipeline.                                       *)
(***************************************************************************)
\* the loop has run to its end
PipelineRan == img_pc = "done" /\ img_i > 0

\* what the run did for the image: its log entries without the image name
LogOf(image) ==
  LET own == SelectSeq(img_log, LAMBDA c : c.image = image)
  IN  [ k \in 1..Len(own) |-> << own[k].cmd, own[k].ok >> ]

\* how the image is treated: skipped, built from its context, or of the
\* activation-required class
ImageClass(image) ==
  LET ctx == find_build_context_for_image(image, dockerfiles)
  IN  IF ctx = NoContext THEN "no_context"
      ELSE IF HasOrchestratorPrefix(image) /\ Basename(ctx) = TxtHexagon THEN "plain"
      ELSE IF Basename(ctx) = TxtLocalKernel THEN "activation_required"
      ELSE "plain"

HasFailure(e) == ~e.build_ok \/ ~e.load_ok

\* C13: every image of the list is processed, and what is done for an image
\* depends on that image alone: two images of the same class with the same
\* answers of docker and kind get the same commands with the same results,
\* whatever fails or is skipped around them.
C13_ImagesIndependent ==
  PipelineRan =>
    /\ \A i \in 1..Len(img_list) : LogOf(img_list[i].image) # << >>
    /\ \A i, j \in 1..Len(img_list) :
         ( /\ ImageClass(img_list[i].image) = ImageClass(img_list[j].image)
           /\ img_list[i].exists = img_list[j].exists
           /\ img_list[i].build_ok = img_list[j].build_ok
           /\ img_list[i].load_ok = img_list[j].load_ok )
         => LogOf(img_list[i].image) = LogOf(img_list[j].image)

\* a failed build, then a skipped image, then an image built and loaded, and
\* the first and the last image differ in nothing but their place
C13_Witness ==
  /\ PipelineRan
  /\ Len(img_list) = 3
  /\ kind_available
  /\ img_list[1].image = ImgApiLatest /\ ~img_list[1].build_ok
  /\ ImageClass(img_list[2].image) = "no_context"
  /\ img_list[3].image = ImgWebLatest
  /\ img_list[3].build_ok /\ ~img_list[3].load_ok
  /\ LogOf(ImgWebLatest) = << << "build", TRUE >>, << "load", FALSE >> >>
  /\ LogOf(ImgApiLatest) = << << "build", FALSE >> >>

\* C14: an activation-required image that exists locally is never built in
\* the run; only the load is run for it, whether the load succeeds or not.
C14_ExistingKernelNotBuilt ==
  PipelineRan =>
    \A i \in 1..Len(img_list) :
      ( /\ ImageClass(img_list[i].image) = "activation_required"
        /\ img_list[i].exists )
      => /\ \A k \in 1..Len(img_log) :
              img_log[k].image = img_list[i].image => img_log[k].cmd # "build"
         /\ kind_available =>
              LogOf(img_list[i].image) =
                << << "inspect", TRUE >>, << "load", img_list[i].load_ok >> >>

(***************************************************************************)
(* A destroy script run against a cluster.  The cluster is what exists     *)
(* when the script starts: [resources] the objects of the manifests,       *)
(* [secret_files] the secret manifests on disk, [releases] the installed   *)
(* chart releases, [pvcs] the claims.  The shell is "sh" (set -e), or one  *)
(* of the two behaviours of a PowerShell under                             *)
(* $ErrorActionPreference = 'Stop' when a program whose error stream is    *)
(* redirected writes to it: "ps_stderr_stops" raises a terminating error   *)
(* (Windows PowerShell 5.1 and PowerShell up to 7.1), "ps_stderr_ignored"  *)
(* goes on (7.2 and later).                                                *)
(***************************************************************************)
AllReleases ==
  UNION { Range(K8S_SERVICE_GROUPS[g].helm_releases) : g \in DOMAIN K8S_SERVICE_GROUPS }

Clusters ==
  [ resources : BOOLEAN, secret_files : BOOLEAN,
    releases : { { }, { "minio" }, AllReleases }, pvcs : BOOLEAN ]

ShellsOf(dialect) ==
  IF dialect = "sh" THEN { "sh" } ELSE { "ps_stderr_stops", "ps_stderr_ignored" }

\* one line of a destroy script: does it succeed, and what is left
\*   delete (lines 857, 875, 895, 913):  --ignore-not-found=true  makes an
\*     absent object a success; the file test skips a missing secret file
\*   helm_delete in sh (line 868):  status && delete || true
\*   helm_delete in ps1 (line 905):  if (helm status R 2>$null) { delete },
\*     where helm status of an absent release writes to its error stream
ExecLine(l, shell, cl) ==
  CASE l.op = "delete" ->
         IF Range(l.aux) = { "if-file-exists", "ignore-not-found" } /\ ~cl.secret_files
         THEN [ ok |-> TRUE, cluster |-> cl ]
         ELSE [ ok |-> cl.resources \/ "ignore-not-found" \in Range(l.aux),
                cluster |-> [ cl EXCEPT !.resources = FALSE ] ]
    [] l.op = "helm_delete" ->
         IF l.arg[1] \in cl.releases
         THEN [ ok |-> TRUE,
                cluster |-> [ cl EXCEPT !.releases = @ \ { l.arg[1] } ] ]
         ELSE [ ok |-> shell # "ps_stderr_stops", cluster |-> cl ]
    [] l.op = "delete_pvc" ->
         [ ok |-> cl.pvcs \/ "ignore-not-found" \in Range(l.aux),
           cluster |-> [ cl EXCEPT !.pvcs = FALSE ] ]
    [] OTHER -> [ ok |-> TRUE, cluster |-> cl ]

\* the script from line i on: the first failing line ends it
RECURSIVE RunFrom(_, _, _, _)
RunFrom(s, i, shell, cl) ==
  IF i > Len(s)
  THEN [ status |-> "finished", failed_at |-> 0, cluster |-> cl ]
  ELSE LET r == ExecLine(s[i], shell, cl)
       IN  IF r.ok
           THEN RunFrom(s, i + 1, shell, r.cluster)
           ELSE [ status |-> "failed", failed_at |-> i, cluster |-> r.cluster ]

InitRun ==
  /\ selected_groups \in Selections
  /\ preserve_pvc \in BOOLEAN
  /\ deploy_sh = << >>
  /\ deploy_ps1 = << >>
  /\ destroy_sh = << >>
  /\ destroy_ps1 = << >>
  /\ MonIdle
  /\ MenuIdle
  /\ ImgIdle
  /\ fn_called = None
  /\ fn_args \in [ cluster : Clusters, runs : { 0 } ]
  /\ fn_result = << >>

\* ./destroy_k8s_<slug>.sh  or  .\destroy_k8s_<slug>.ps1, a first or a
\* second time, on what the run before left
run_destroy_script(dialect) ==
  /\ Written(destroy_sh)
  /\ fn_args.runs < 2
  /\ \E shell \in ShellsOf(dialect) :
       LET s == IF dialect = "sh" THEN destroy_sh ELSE destroy_ps1
           r == RunFrom(s, 1, shell, fn_args.cluster)
       IN  /\ fn_called' = "run_destroy_script"
           /\ fn_result' = [ shell |-> shell, status |-> r.status,
                             failed_at |-> r.failed_at, before |-> fn_args.cluster ]
           /\ fn_args' = [ cluster |-> r.cluster, runs |-> fn_args.runs + 1 ]
  /\ UNCHANGED << genvars, monvars, menuvars, imgvars >>

NextRun ==
  \/ generate_k8s_destroy_script
  \/ run_destroy_script("sh")
  \/ run_destroy_script("ps1")

SpecRun == InitRun /\ [][NextRun]_vars

(***************************************************************************)
(* Properties of a destroy script run.                                     *)
(***************************************************************************)
DestroyRan == fn_called = "run_destroy_script"

\* C21: a destroy script reaches its completion marker whatever subset of
\* its targets is absent, on a first run and on a second run.
C21_DestroyIdempotent ==
  DestroyRan => fn_result.status = "finished"

(***************************************************************************)
(* The names of the script files.  A group name is spelled out character   *)
(* by character, so that split(), lower() and join() are computed.         *)
(***************************************************************************)
\* the characters of a group name
NameText(g) ==
  CASE g = "Stateful Backend" ->
         << "S", "t", "a", "t", "e", "f", "u", "l", " ", "B", "a", "c", "k", "e", "n", "d" >>
    [] g = "Messaging" -> << "M", "e", "s", "s", "a", "g", "i", "n", "g" >>
    [] g = "Core Applications" ->
         << "C", "o", "r", "e", " ", "A", "p", "p", "l", "i", "c", "a", "t", "i", "o", "n", "s" >>
    [] g = "Scheduling App" ->
         << "S", "c", "h", "e", "d", "u", "l", "i", "n", "g", " ", "A", "p", "p" >>
    [] g = "News Ingestion Job" ->
         << "N", "e", "w", "s", " ", "I", "n", "g", "e", "s", "t", "i", "o", "n", " ", "J", "o", "b" >>
    [] g = "Ghost" -> << "G", "h", "o", "s", "t" >>

UpperCase ==
  << "A", "B", "C", "D", "E", "F", "G", "H", "I", "J", "K", "L", "M",
     "N", "O", "P", "Q", "R", "S", "T", "U", "V", "W", "X", "Y", "Z" >>

LowerCase ==
  << "a", "b", "c", "d", "e", "f", "g", "h", "i", "j", "k", "l", "m",
     "n", "o", "p", "q", "r", "s", "t", "u", "v", "w", "x", "y", "z" >>

\* s.lower()
Lower(s) ==
  [ i \in 1..Len(s) |->
      IF \E k \in 1..Len(UpperCase) : UpperCase[k] = s[i]
      THEN LowerCase[CHOOSE k \in 1..Len(UpperCase) : UpperCase[k] = s[i]]
      ELSE s[i] ]

\* s.split()[0] for a name that does not begin with a blank
FirstWord(s) == BeforeFirst(s, " ")

\* "_".join(words)
RECURSIVE JoinUnderscore(_)
JoinUnderscore(words) ==
  IF words = << >> THEN << >>
  ELSE IF Len(words) = 1 THEN words[1]
  ELSE words[1] \o << "_" >> \o JoinUnderscore(Tail(words))

TxtAll == << "a", "l", "l" >>

\* a slug that is "all" from four groups on
script_name_partMutant(groups) ==
  IF Len(groups) >= Len(GroupOrder) - 1
  THEN TxtAll
  ELSE JoinUnderscore([ i \in 1..Len(groups) |-> Lower(FirstWord(NameText(groups[i]))) ])

\* lines 649 and 844 (and 1225, 1250): script_name_part
script_name_part(groups) ==
  IF Len(groups) = Cardinality(DOMAIN K8S_SERVICE_GROUPS)
  THEN TxtAll
  ELSE JoinUnderscore([ i \in 1..Len(groups) |-> Lower(FirstWord(NameText(groups[i]))) ])

TxtDeployK8s == << "d", "e", "p", "l", "o", "y", "_", "k", "8", "s", "_" >>

TxtDestroyK8s == << "d", "e", "s", "t", "r", "o", "y", "_", "k", "8", "s", "_" >>

TxtDotSh == << ".", "s", "h" >>

TxtDotPs1 == << ".", "p", "s", "1" >>

\* lines 650-651 and 845-846: the two file names of a mode
script_filenames(mode, groups) ==
  LET prefix == IF mode = "deploy" THEN TxtDeployK8s ELSE TxtDestroyK8s
  IN  [ sh |-> prefix \o script_name_part(groups) \o TxtDotSh,
        ps1 |-> prefix \o script_name_part(groups) \o TxtDotPs1 ]

InitNames ==
  /\ GenIdle
  /\ MonIdle
  /\ MenuIdle
  /\ ImgIdle
  /\ fn_called = None
  /\ fn_args \in [ mode : { "deploy", "destroy" }, groups : Selections \ { << >> } ]
  /\ fn_result = << >>

call_script_filenames ==
  /\ fn_called = None
  /\ fn_called' = "script_filenames"
  /\ fn_result' = script_filenames(fn_args.mode, fn_args.groups)
  /\ UNCHANGED fn_args
  /\ UNCHANGED << genvars, monvars, menuvars, imgvars >>

NextNames == call_script_filenames

SpecNames == InitNames /\ [][NextNames]_vars

(***************************************************************************)
(* Properties of the file names.                                           *)
(***************************************************************************)
Named == fn_called = "script_filenames"

\* the first word of each group name in lower case, written out
SlugWord(g) ==
  CASE g = "Stateful Backend" -> << "s", "t", "a", "t", "e", "f", "u", "l" >>
    [] g = "Messaging" -> << "m", "e", "s", "s", "a", "g", "i", "n", "g" >>
    [] g = "Core Applications" -> << "c", "o", "r", "e" >>
    [] g = "Scheduling App" -> << "s", "c", "h", "e", "d", "u", "l", "i", "n", "g" >>
    [] g = "News Ingestion Job" -> << "n", "e", "w", "s" >>
    [] g = "Ghost" -> << "g", "h", "o", "s", "t" >>

\* the text between the mode prefix and the extension
SlugOf(name, mode, ext) ==
  SubSeq(name, (IF mode = "deploy" THEN 11 ELSE 12) + 1, Len(name) - Len(ext))

\* the words of a slug: the text between its underscores
RECURSIVE SlugWords(_)
SlugWords(slug) ==
  IF HasChar(slug, "_")
  THEN << BeforeFirst(slug, "_") >>
       \o SlugWords(SubSeq(slug, Len(BeforeFirst(slug, "_")) + 2, Len(slug)))
  ELSE << slug >>

\* C22: the slug of both file names is 'all' exactly when every catalog
\* group is selected; otherwise its words, separated by underscores, are the
\* lowercased first words of the selected names in order; the file name is
\* the mode prefix, the slug and the extension.
C22_SlugOfSelection ==
  Named =>
    LET slug == SlugOf(fn_result.sh, fn_args.mode, << ".", "s", "h" >>)
        every == Range(fn_args.groups) = DOMAIN K8S_SERVICE_GROUPS
    IN  /\ StartsWith(fn_result.sh,
                      IF fn_args.mode = "deploy"
                      THEN << "d", "e", "p", "l", "o", "y", "_", "k", "8", "s", "_" >>
                      ELSE << "d", "e", "s", "t", "r", "o", "y", "_", "k", "8", "s", "_" >>)
        /\ TextEndsWith(fn_result.sh, << ".", "s", "h" >>)
        /\ fn_result.ps1 =
             SubSeq(fn_result.sh, 1, Len(fn_result.sh) - 3) \o << ".", "p", "s", "1" >>
        /\ every <=> slug = << "a", "l", "l" >>
        /\ ~every =>
             SlugWords(slug) = [ i \in 1..Len(fn_args.groups) |-> SlugWord(fn_args.groups[i]) ]

\* four of the five groups: destroy_k8s_stateful_messaging_core_news.sh
C22_Witness ==
  /\ Named
  /\ fn_args.mode = "destroy"
  /\ fn_args.groups = << "Stateful Backend", "Messaging", "Core Applications",
                         "News Ingestion Job" >>
  /\ Len(SlugWords(SlugOf(fn_result.sh, "destroy", << ".", "s", "h" >>))) = 4

(***************************************************************************)
(* Manifests that cannot be read.                                          *)
(***************************************************************************)
\* the file is there and is read to its end
WellFormed(file) ==
  file.exists /\ \A j \in 1..Len(file.docs) : ~file.docs[j].raises

\* C23: a manifest that is missing or raises while it is read contributes
\* no image, and the result is what the other manifests of the list give.
C23_BadManifestSkipped ==
  Extracted =>
    fn_result = extract_images_from_manifests(SelectSeq(fn_args, WellFormed))

(***************************************************************************)
(* Convergence and the controllers that exist.                             *)
(***************************************************************************)
\* the Deployments and StatefulSets of the namespace at the time of the
\* tick's queries, whether the query returned them or raised
ExistingControllers == Range(dep_out.items) \cup Range(st_out.items)

\* C24: the monitor leaves as converged only on a tick in which every
\* Deployment and StatefulSet that exists is ready, also when one of the
\* tick's queries failed.
C24_ConvergedMeansAllReady ==
  (pc = "done" /\ outcome = "converged") =>
    \A c \in ExistingControllers :
      Desired(c) > 0 /\ ReadyReplicas(c) >= Desired(c)

(***************************************************************************)
(* Special-case remaps against the generic candidates.                     *)
(***************************************************************************)
\* the image name without its tag
BaseName(image) == BeforeFirst(image, ":")

\* C25: for an image whose base name has a remap, a remapped directory with
\* a Dockerfile under any root is what the resolution returns, whatever
\* directories of the verbatim or underscore name hold a Dockerfile.
C25_RemapOverrides ==
  ( /\ ContextFound
    /\ SpecialDir(BaseName(fn_args.image)) # << >>
    /\ \E r \in Range(SearchRoots) :
         Dir(r, SpecialDir(BaseName(fn_args.image))) \in fn_args.files )
  => /\ fn_result # NoContext
     /\ fn_result.rel = SpecialDir(BaseName(fn_args.image))

(***************************************************************************)
(* The candidates of an extracted image: the extraction, then              *)
(* _candidate_build_dirs_for_image on one of the references it returned.   *)
(***************************************************************************)
call_candidate_build_dirs_for_image ==
  /\ fn_called = "_extract_images_from_manifests"
  /\ \E i \in 1..Len(fn_result) :
       /\ fn_called' = "_candidate_build_dirs_for_image"
       /\ fn_args' = fn_result[i]
       /\ fn_result' = candidate_build_dirs_for_image(fn_result[i])
  /\ UNCHANGED << genvars, monvars, menuvars, imgvars >>

NextCand ==
  \/ call_extract_images_from_manifests
  \/ call_candidate_build_dirs_for_image

SpecCand == InitExtract /\ [][NextCand]_vars

(***************************************************************************)
(* Properties of the candidates.                                           *)
(***************************************************************************)
CandidatesListed == fn_called = "_candidate_build_dirs_for_image"

\* the reference without its last 7 characters, ':latest'
WithoutLatestTag(ref) == SubSeq(ref, 1, Len(ref) - 7)

\* C26: the candidates of an extracted reference are derived from the
\* reference without its ':latest' tag: the directory of that name under
\* REPO_ROOT is a candidate, and every candidate is that name, its
\* underscore variant or its remap.
C26_BaseIsRefWithoutTag ==
  CandidatesListed =>
    LET base == WithoutLatestTag(fn_args)
    IN  /\ Dir("REPO_ROOT", base) \in Range(fn_result)
        /\ \A k \in 1..Len(fn_result) :
             fn_result[k].rel \in
               { base, ReplaceChar(base, "-", "_"), SpecialDir(base) }

(***************************************************************************)
(* Every selected manifest applied.                                        *)
(***************************************************************************)
\* the lines of s that apply manifest m
AppliesOf(s, m) == { i \in 1..Len(s) : s[i].op = "apply" /\ s[i].arg = m }

\* C27: every manifest that get_group_resources returns for the selection
\* is the target of exactly one apply command of each deploy script.
C27_EveryManifestAppliedOnce ==
  \A s \in DeployScripts :
    \A m \in Range(get_group_resources(selected_groups).manifests) :
      Cardinality(AppliesOf(s, m)) = 1

(***************************************************************************)
(* The menu loop of manage_kubernetes_environment.  One iteration selects  *)
(* an action and a scope, runs the reachability check where the action     *)
(* has one, and runs the action.  effects lists what the iteration has     *)
(* called; cluster is how the tools and the user will answer the check.    *)
(***************************************************************************)
\* for _ in range(40): polls of the new cluster
PollAttempts == 40

MenuActions ==
  { "deploy", "refresh", "stop", "destroy", "status", "gen_deploy",
    "gen_destroy", "build_images", "start_kind", "delete_kind", "port_forward" }

\* the actions that ask for the scope
ScopedActions ==
  { "deploy", "destroy", "refresh", "stop", "gen_deploy", "gen_destroy" }

\* the scopes drawn: nothing ticked, one group, the full stack
MenuSelections == { << >>, << GroupOrder[1] >>, GroupOrder }

\* the check left out for destroy
NeedsClusterMutant(action) ==
  action \in { "deploy", "refresh", "stop", "port_forward" }

\* the actions behind  if not _ensure_cluster_online_or_offer_start()
NeedsCluster(action) ==
  action \in { "deploy", "refresh", "stop", "destroy", "port_forward" }

\* how the environment answers: kubectl and kind installed, the first probe,
\* the answer to the offer, the result of kind create, and the poll at which
\* the new cluster answers (PollAttempts + 1: it never does)
ClusterBehaviours ==
  [ kubectl : BOOLEAN, probe : BOOLEAN, kind : BOOLEAN, accept : BOOLEAN,
    create_ok : BOOLEAN, up_at : { 1, PollAttempts, PollAttempts + 1 } ]

\* _is_cluster_online() at the first probe
is_cluster_online(c) == c.kubectl /\ c.probe

\* kind create cluster is run
KindCreateRun(c) == c.kind /\ c.accept

\* _start_kind_cluster_interactive()
start_kind_cluster_interactive(c) ==
  /\ c.kind
  /\ c.accept
  /\ c.create_ok
  /\ c.kubectl
  /\ \E n \in 1..PollAttempts : n = c.up_at

\* _ensure_cluster_online_or_offer_start()
ensure_cluster_online_or_offer_start(c) ==
  IF is_cluster_online(c) THEN TRUE ELSE start_kind_cluster_interactive(c)

OfflineNotice(action) ==
  CASE action = "deploy" -> "Deploy cancelled: cluster is offline."
    [] action = "refresh" -> "Refresh cancelled: cluster is offline."
    [] action = "stop" -> "Stop cancelled: cluster is offline."
    [] action = "destroy" -> "Destroy cancelled: cluster is offline."
    [] action = "port_forward" -> "Cluster offline. Port-forward cancelled."
    [] OTHER -> None

InitMenu ==
  /\ GenIdle
  /\ MonIdle
  /\ FnIdle
  /\ ImgIdle
  /\ action_choice = None
  /\ menu_pc = "select"
  /\ cluster = << >>
  /\ cluster_online = None
  /\ effects = << >>
  /\ notice = None
  /\ written_now = { }
  /\ run_path = << >>

\* lines 1170-1215: the action, the scope, the env file
menu_select ==
  /\ menu_pc = "select"
  /\ \E a \in MenuActions, sel \in MenuSelections :
       /\ action_choice' = a
       /\ selected_groups' = IF a \in ScopedActions THEN sel ELSE selected_groups
       /\ effects' = IF a \in { "deploy", "gen_deploy" }
                     THEN << "load_env_file" >>
                     ELSE << >>
       /\ menu_pc' = IF NeedsCluster(a) THEN "ensure" ELSE "act"
  /\ UNCHANGED << cluster, cluster_online, notice, written_now, run_path >>
  /\ UNCHANGED << preserve_pvc, deploy_sh, deploy_ps1, destroy_sh, destroy_ps1 >>
  /\ UNCHANGED << monvars, fnvars, imgvars >>

\* line 1189: Exit
menu_exit ==
  /\ menu_pc = "select"
  /\ menu_pc' = "exit"
  /\ UNCHANGED << action_choice, cluster, cluster_online, effects, notice,
                  written_now, run_path >>
  /\ UNCHANGED << genvars, monvars, fnvars, imgvars >>

\* lines 1217-1219, 1231-1233, 1236-1238, 1241-1243, 1300-1302
menu_ensure ==
  /\ menu_pc = "ensure"
  /\ \E c \in ClusterBehaviours :
       LET online == ensure_cluster_online_or_offer_start(c)
           offered == ~is_cluster_online(c) /\ KindCreateRun(c)
       IN  /\ cluster' = c
           /\ cluster_online' = IF online THEN "online" ELSE "offline"
           /\ effects' = IF offered THEN Append(effects, "kind_create") ELSE effects
           /\ IF online
              THEN menu_pc' = "act" /\ notice' = notice
              ELSE menu_pc' = "end" /\ notice' = OfflineNotice(action_choice)
  /\ UNCHANGED << action_choice, written_now, run_path >>
  /\ UNCHANGED << genvars, monvars, fnvars, imgvars >>

\* what the action calls once it goes ahead, with the answers to its prompts
ActionCalls(action, wait, forward) ==
  CASE action = "deploy" ->
         << "build_and_load_kind_images", "generate_k8s_deploy_script",
            "run_script" >>
         \o (IF wait THEN << "wait_for_readiness" >> ELSE << >>)
    [] action = "gen_deploy" -> << "generate_k8s_deploy_script" >>
    [] action = "refresh" -> << "refresh_k8s_deployments" >>
    [] action = "stop" -> << "stop_k8s_deployments" >>
    [] action = "destroy" -> << "generate_k8s_destroy_script", "run_script" >>
    [] action = "gen_destroy" -> << "generate_k8s_destroy_script" >>
    [] action = "status" -> << "check_k8s_status" >>
    [] action = "build_images" -> << "build_and_load_kind_images" >>
    [] action = "start_kind" -> << "kind_create" >>
    [] action = "delete_kind" -> << "kind_delete" >>
    [] action = "port_forward" ->
         << "list_services" >>
         \o (IF forward THEN << "start_port_forward" >> ELSE << >>)

\* the two files a generator writes for the selection, none on its early
\* returns
GeneratedFiles(mode, groups) ==
  IF NothingToGenerate(groups) THEN { }
  ELSE { script_filenames(mode, groups).sh, script_filenames(mode, groups).ps1 }

\* lines 1225-1226 and 1250-1251: script_path
script_path(mode, groups, windows) ==
  IF windows THEN script_filenames(mode, groups).ps1
  ELSE script_filenames(mode, groups).sh

\* the answers to a prompt or test that only the given actions reach
Asked(actions) == IF action_choice \in actions THEN BOOLEAN ELSE { FALSE }

\* lines 1220-1252, 1254-1385: the action itself
menu_act ==
  /\ menu_pc = "act"
  /\ \E wait \in Asked({ "deploy" }),
        forward \in Asked({ "port_forward" }),
        preserve \in Asked({ "destroy", "gen_destroy" }),
        windows \in Asked({ "deploy", "destroy" }) :
       /\ effects' = effects \o ActionCalls(action_choice, wait, forward)
       /\ written_now' =
            CASE action_choice \in { "deploy", "gen_deploy" } ->
                   GeneratedFiles("deploy", selected_groups)
              [] action_choice \in { "destroy", "gen_destroy" } ->
                   GeneratedFiles("destroy", selected_groups)
              [] OTHER -> { }
       /\ run_path' =
            IF action_choice \in { "deploy", "destroy" }
            THEN script_path(action_choice, selected_groups, windows)
            ELSE << >>
       /\ IF action_choice \in { "deploy", "gen_deploy" }
             /\ ~NothingToGenerate(selected_groups)
          THEN /\ deploy_sh' = DeployScriptSh(selected_groups)
               /\ deploy_ps1' = DeployScriptPs1(selected_groups)
          ELSE UNCHANGED << deploy_sh, deploy_ps1 >>
       /\ IF action_choice \in { "destroy", "gen_destroy" }
          THEN /\ preserve_pvc' = preserve
               /\ IF ~NothingToGenerate(selected_groups)
                  THEN /\ destroy_sh' = DestroyScriptSh(selected_groups, preserve)
                       /\ destroy_ps1' = DestroyScriptPs1(selected_groups, preserve)
                  ELSE UNCHANGED << destroy_sh, destroy_ps1 >>
          ELSE UNCHANGED << preserve_pvc, destroy_sh, destroy_ps1 >>
  /\ menu_pc' = "end"
  /\ UNCHANGED << action_choice, cluster, cluster_online, notice, selected_groups >>
  /\ UNCHANGED << monvars, fnvars, imgvars >>

\* line 1168: while True, the next iteration; it rebinds the locals
menu_continue ==
  /\ menu_pc = "end"
  /\ menu_pc' = "select"
  /\ action_choice' = None
  /\ cluster' = << >>
  /\ cluster_online' = None
  /\ effects' = << >>
  /\ notice' = None
  /\ written_now' = { }
  /\ run_path' = << >>
  /\ selected_groups' = << >>
  /\ preserve_pvc' = FALSE
  /\ UNCHANGED << deploy_sh, deploy_ps1, destroy_sh, destroy_ps1 >>
  /\ UNCHANGED << monvars, fnvars, imgvars >>

NextMenu ==
  \/ menu_select
  \/ menu_exit
  \/ menu_ensure
  \/ menu_act
  \/ menu_continue

SpecMenu == InitMenu /\ [][NextMenu]_vars

(***************************************************************************)
(* Properties of the menu loop.                                            *)
(***************************************************************************)
\* the calls that build, generate, run, restart, scale or forward
GuardedCalls ==
  { "build_and_load_kind_images", "generate_k8s_deploy_script",
    "generate_k8s_destroy_script", "run_script", "wait_for_readiness",
    "refresh_k8s_deployments", "stop_k8s_deployments", "list_services",
    "start_port_forward" }

GuardedActions == { "deploy", "destroy", "refresh", "stop", "port_forward" }

\* C12: for deploy, destroy, refresh, stop and port_forward, once the check
\* has reported the cluster offline the iteration calls none of the action's
\* effects, prints the offline notice and ends (the loop goes on); and
\* such an action calls its effects only after the check reported online.
C12_OfflineCancels ==
  /\ (action_choice \in GuardedActions /\ cluster_online = "offline") =>
       /\ \A i \in 1..Len(effects) : effects[i] \notin GuardedCalls
       /\ notice = OfflineNotice(action_choice)
       /\ notice # None
       /\ menu_pc = "end"
  /\ (action_choice \in GuardedActions
        /\ \E i \in 1..Len(effects) : effects[i] \in GuardedCalls) =>
       cluster_online = "online"

\* a destroy cancelled after the offered cluster failed to start, in a session
\* that had deployed before
C12_Witness ==
  /\ action_choice = "destroy"
  /\ cluster_online = "offline"
  /\ effects = << "kind_create" >>
  /\ Written(deploy_sh)
  /\ ~Written(destroy_sh)
  /\ menu_pc = "end"

\* C28: in a deploy or destroy action _run_script is given only the path of
\* a file that the generator wrote in this action, whatever the selection.
C28_RunsOnlyGeneratedScript ==
  (menu_pc = "end" /\ "run_script" \in Range(effects)) =>
    run_path \in written_now

(***************************************************************************)
(* Where the reason of a record comes from.                                *)
(***************************************************************************)
\* the pod has an owner reference of a controller kind whose name the
\* monitor cuts down to the key
AttributedTo(pod, key) ==
  \E k \in 1..Len(pod.ownerReferences) :
    /\ pod.ownerReferences[k].kind \in { "ReplicaSet", "StatefulSet" }
    /\ pod.ownerReferences[k].name # << >>
    /\ << Head(pod.ownerReferences[k].name) >> = key

\* C29: the reason in the record of a controller is an error reason of a
\* pod of the same tick that is attributed to the controller; a pod without
\* such an owner never supplies it.
C29_ReasonFromOwnedPod ==
  TickDone =>
    \A i \in 1..Len(rows) :
      rows[i].reason # None =>
        \E p \in Range(Seen(pods_out)) :
          /\ AttributedTo(p, rows[i].name)
          /\ HasErrorReason(p)

(***************************************************************************)
(* Order of the pipeline and what may be loaded.                           *)
(***************************************************************************)
\* the place of the image in the list of the run
PlaceOf(image) == CHOOSE i \in 1..Len(img_list) : img_list[i].image = image

\* C30: the commands of a run follow the sorted list, image after image,
\* never going back to an earlier image; a load is run for a tag only after
\* a successful build of that tag in this run or after the tag was found to
\* exist locally, and a tag whose build failed or whose context did not
\* resolve is not loaded into the cluster.
C30_SequentialAndLoadAfterBuild ==
  (img_pc \in { "loop", "done" } /\ img_i > 0) =>
    /\ \A i \in 1..(Len(img_list) - 1) :
         TextLess(img_list[i].image, img_list[i + 1].image)
    /\ \A k, l \in 1..Len(img_log) :
         k < l => PlaceOf(img_log[k].image) <= PlaceOf(img_log[l].image)
    /\ \A l \in 1..Len(img_log) :
         img_log[l].cmd = "load" =>
           \E k \in 1..(l - 1) :
             /\ img_log[k].image = img_log[l].image
             /\ img_log[k].cmd \in { "build", "inspect" }
             /\ img_log[k].ok
    /\ \A k, l \in 1..Len(img_log) :
         ( /\ img_log[k].image = img_log[l].image
           /\ \/ img_log[k].cmd = "build" /\ ~img_log[k].ok
              \/ img_log[k].cmd = "no_context" )
         => ~(img_log[l].cmd = "load" /\ img_log[l].ok)

\* three images in a run: one skipped, one whose build failed, and the
\* kernel image loaded without a build
C30_Witness ==
  /\ PipelineRan
  /\ Len(img_list) = 3
  /\ \E k \in 1..Len(img_log) : img_log[k].cmd = "no_context"
  /\ \E k \in 1..Len(img_log) : img_log[k].cmd = "build" /\ ~img_log[k].ok
  /\ \E k \in 1..Len(img_log) :
       img_log[k].cmd = "load" /\ img_log[k].ok
         /\ LogOf(img_log[k].image) = << << "inspect", TRUE >>, << "load", TRUE >> >>

====
